---- MODULE Spec2Model ----
(***************************************************************************)
(* aumai-toolcanon: format detection, parsing, canonicalization, emission. *)
(*                                                                         *)
(* A tool definition is a JSON object.  JSON values are tagged records;   *)
(* a JSON object is a function from its present keys to JSON values, so   *)
(* `"name" in tool_def` is  "name" \in DOMAIN d .  Python strings are     *)
(* TLA+ strings (TLC computes Len, \o and SubSeq on them).  A call that   *)
(* may raise returns Ok(value) or Raise(message).                          *)
(***************************************************************************)
EXTENDS Integers, Sequences, FiniteSets, TLC

VARIABLES
    tool_def,        \* the document handed to the call
    source_format,   \* the format override of canonicalize ("none": no override)
    pc,              \* the position of the program: "start", then the last call
    outcome,         \* Ok(result) / Raise(message) of the call, NoCall before it
    parser_outcome,  \* what the chosen parser's parse did in canonicalize
    again,           \* the outcome of a second canonicalize of the same input
    args,            \* the (name, description) handed to _infer_capabilities
    canonical,       \* the CanonicalTool handed to an emitter
    target,          \* the emitter called ("none": no emitter yet)
    emitted,         \* the document the emitter returned
    reemitted,       \* the document emitted from the re-canonicalized emission
    service,         \* the AsyncCanonicalizer: state, _canonicalizer, _detector,
                     \* request_count
    emitter,         \* the events handed to the service's _emitter.emit, in order
    history,         \* what has been called so far (counts)
    hub,             \* the AumOS hub: registered services, subscriptions, events
    integration,     \* the ToolCanonIntegration: _is_set_up, _subscription_id,
                     \* _canonicalizer
    event            \* the event last handed to _on_tool_registered

vars == <<tool_def, source_format, pc, outcome, parser_outcome, again, args,
          canonical, target, emitted, reemitted, service, emitter, history,
          hub, integration, event>>

(***************************************************************************)
(* JSON values as Python sees them                                         *)
(***************************************************************************)
Null      == [t |-> "null"]
Bool(b)   == [t |-> "bool", v |-> b]
Num(n)    == [t |-> "num", v |-> n]
Str(s)    == [t |-> "str", v |-> s]
Arr(a)    == [t |-> "arr", v |-> a]
Obj(o)    == [t |-> "obj", v |-> o]

EmptyDict == [k \in {} |-> Null]

IsDict(x) == x.t = "obj"
IsStr(x)  == x.t = "str"

\* bool(x): the truth value Python's `or` tests
Truthy(x) ==
    CASE x.t = "null" -> FALSE
      [] x.t = "bool" -> x.v
      [] x.t = "num"  -> x.v # 0
      [] x.t = "str"  -> x.v # ""
      [] x.t = "arr"  -> Len(x.v) # 0
      [] x.t = "obj"  -> DOMAIN x.v # {}

\* a or b
PyOr(a, b) == IF Truthy(a) THEN a ELSE b

\* d.get(k, default) and d.get(k) on a dict d
DictGet(d, k, default) == IF k \in DOMAIN d THEN d[k] ELSE default
DictGetNone(d, k)      == DictGet(d, k, Null)

\* d with key k set to v
DictPut(d, k, v) == [j \in DOMAIN d \cup {k} |-> IF j = k THEN v ELSE d[j]]

\* type(x).__name__, as it appears in exception messages
TypeName(x) ==
    CASE x.t = "null" -> "NoneType"
      [] x.t = "bool" -> "bool"
      [] x.t = "num"  -> "int"
      [] x.t = "str"  -> "str"
      [] x.t = "arr"  -> "list"
      [] x.t = "obj"  -> "dict"

Ok(x)    == [ok |-> TRUE, val |-> x]
Raise(m) == [ok |-> FALSE, exc |-> m]

\* x.get(...) on a value that is not a dict
NoGetAttr(x) == "'" \o TypeName(x) \o "' object has no attribute 'get'"

(***************************************************************************)
(* The key order of documents.  Python dicts iterate in insertion order;  *)
(* the documents of the model list their keys in this order.              *)
(***************************************************************************)
KeyOrder ==
    << "type", "function", "name", "title", "description", "parameters",
       "input_schema", "inputSchema", "schema", "args_schema", "properties",
       "required", "model_fields", "is_required", "path", "query", "to" >>

RECURSIVE KeysFrom(_, _)
KeysFrom(d, i) ==
    IF i > Len(KeyOrder) THEN <<>>
    ELSE IF KeyOrder[i] \in DOMAIN d
         THEN <<KeyOrder[i]>> \o KeysFrom(d, i + 1)
         ELSE KeysFrom(d, i + 1)

\* list(d): the keys of d in iteration order
DictKeys(d) == KeysFrom(d, 1)

(***************************************************************************)
(* str(x) and repr(x).  Strings of the model hold no quote or backslash,  *)
(* so repr of a string is the string in single quotes.                     *)
(***************************************************************************)
RECURSIVE PyRepr(_), ReprItems(_, _), ReprPairs(_, _, _)
ReprItems(a, i) ==
    IF i > Len(a) THEN ""
    ELSE (IF i > 1 THEN ", " ELSE "") \o PyRepr(a[i]) \o ReprItems(a, i + 1)
ReprPairs(d, ks, i) ==
    IF i > Len(ks) THEN ""
    ELSE (IF i > 1 THEN ", " ELSE "") \o "'" \o ks[i] \o "': "
         \o PyRepr(d[ks[i]]) \o ReprPairs(d, ks, i + 1)
PyRepr(x) ==
    CASE x.t = "null" -> "None"
      [] x.t = "bool" -> IF x.v THEN "True" ELSE "False"
      [] x.t = "num"  -> ToString(x.v)
      [] x.t = "str"  -> "'" \o x.v \o "'"
      [] x.t = "arr"  -> "[" \o ReprItems(x.v, 1) \o "]"
      [] x.t = "obj"  -> "{" \o ReprPairs(x.v, DictKeys(x.v), 1) \o "}"

PyStr(x) == IF x.t = "str" THEN x.v ELSE PyRepr(x)

(***************************************************************************)
(* str.lower() and the substring test `w in text`                          *)
(***************************************************************************)
UpperCase == "ABCDEFGHIJKLMNOPQRSTUVWXYZ"
LowerCase == "abcdefghijklmnopqrstuvwxyz"

LowerTable ==
    [c \in {SubSeq(UpperCase, i, i) : i \in 1..Len(UpperCase)} |->
        LET i == CHOOSE j \in 1..Len(UpperCase) : SubSeq(UpperCase, j, j) = c
        IN  SubSeq(LowerCase, i, i)]

RECURSIVE LowerFrom(_, _)
LowerFrom(s, i) ==
    IF i > Len(s) THEN ""
    ELSE LET c == SubSeq(s, i, i)
         IN  (IF c \in DOMAIN LowerTable THEN LowerTable[c] ELSE c)
             \o LowerFrom(s, i + 1)

Lower(s) == LowerFrom(s, 1)

Contains(text, w) ==
    \E i \in 1..(Len(text) - Len(w) + 1) : SubSeq(text, i, i + Len(w) - 1) = w

(***************************************************************************)
(* models.py                                                               *)
(***************************************************************************)
SourceFormat == {"openai", "anthropic", "mcp", "langchain", "raw"}

ToolCapability(action, domain, side_effects, idempotent, cost_estimate) ==
    [action |-> action, domain |-> domain, side_effects |-> side_effects,
     idempotent |-> idempotent, cost_estimate |-> cost_estimate]

DefaultToolCapability == ToolCapability("", "", FALSE, TRUE, "unknown")

\* The fields of CanonicalTool(...) that pydantic rejects: name and description
\* must be str, inputs a dict.  The other arguments the callers pass are always
\* of the declared type.
InvalidFields(name, description, inputs) ==
    (IF IsStr(name) THEN <<>> ELSE <<"name">>)
    \o (IF IsStr(description) THEN <<>> ELSE <<"description">>)
    \o (IF IsDict(inputs) THEN <<>> ELSE <<"inputs">>)

RECURSIVE JoinLines(_, _)
JoinLines(fields, i) ==
    IF i > Len(fields) THEN "" ELSE "\n" \o fields[i] \o JoinLines(fields, i + 1)

\* str(ValidationError): the count and the rejected fields (the per-field detail
\* lines of pydantic's message are left out)
ValidationError(fields) ==
    ToString(Len(fields)) \o " validation error"
    \o (IF Len(fields) > 1 THEN "s" ELSE "") \o " for CanonicalTool"
    \o JoinLines(fields, 1)

\* mutant: original_definition is left at its default, {}
CanonicalToolDefaultOriginal(name, description, capabilities, inputs, fmt, original) ==
    LET bad == InvalidFields(name, description, inputs)
    IN  IF bad # <<>> THEN Raise(ValidationError(bad))
        ELSE Ok([name |-> name.v,
                 version |-> "1.0.0",
                 description |-> description.v,
                 capabilities |-> capabilities,
                 inputs |-> inputs.v,
                 outputs |-> EmptyDict,
                 security |-> Null,
                 source_format |-> fmt,
                 original_definition |-> EmptyDict])

\* CanonicalTool(name=..., description=..., capabilities=..., inputs=...,
\*               outputs={}, source_format=..., original_definition=...)
CanonicalTool(name, description, capabilities, inputs, fmt, original) ==
    LET bad == InvalidFields(name, description, inputs)
    IN  IF bad # <<>> THEN Raise(ValidationError(bad))
        ELSE Ok([name |-> name.v,
                 version |-> "1.0.0",
                 description |-> description.v,
                 capabilities |-> capabilities,
                 inputs |-> inputs.v,
                 outputs |-> EmptyDict,
                 security |-> Null,
                 source_format |-> fmt,
                 original_definition |-> original])

\* mutant: source_format_detected copied from the tool
CanonicalizationResultFromTool(tool, warnings, detected) ==
    [tool |-> tool, warnings |-> warnings,
     source_format_detected |-> tool.source_format]

CanonicalizationResult(tool, warnings, detected) ==
    [tool |-> tool, warnings |-> warnings, source_format_detected |-> detected]

(***************************************************************************)
(* parsers/openai.py: _infer_capabilities                                  *)
(***************************************************************************)
\* mutant: "post" is missing from the set
SideEffectVerbsWithoutPost ==
    {"write", "create", "delete", "update", "send", "save", "remove"}

SideEffectVerbs ==
    {"write", "create", "delete", "update", "post", "send", "save", "remove"}

\* the read_verbs set literal, in the order it is written
ReadVerbs == <<"read", "get", "fetch", "list", "search", "query", "find">>

\* domain_map with "web" ahead of "file"
DomainMapWebFirst ==
    << <<"web", "web">>, <<"file", "filesystem">>, <<"search", "web">>,
       <<"database", "database">>, <<"sql", "database">>, <<"code", "code">>,
       <<"email", "email">>, <<"http", "web">>, <<"api", "web">> >>

\* domain_map, a dict: iterated in insertion order
DomainMap ==
    << <<"file", "filesystem">>, <<"web", "web">>, <<"search", "web">>,
       <<"database", "database">>, <<"sql", "database">>, <<"code", "code">>,
       <<"email", "email">>, <<"http", "web">>, <<"api", "web">> >>

\* name + " " + description
ConcatText(name, description) ==
    IF ~IsStr(name)
    THEN Raise(IF name.t = "arr"
               THEN "can only concatenate list (not \"str\") to list"
               ELSE "unsupported operand type(s) for +: '" \o TypeName(name)
                    \o "' and 'str'")
    ELSE IF ~IsStr(description)
    THEN Raise("can only concatenate str (not \"" \o TypeName(description)
               \o "\") to str")
    ELSE Ok(name.v \o " " \o description.v)

\* for x in seq: if x in text: return x   (default when the loop ends)
RECURSIVE FirstMatch(_, _, _, _)
FirstMatch(seq, i, text, default) ==
    IF i > Len(seq) THEN default
    ELSE IF Contains(text, seq[i]) THEN seq[i]
    ELSE FirstMatch(seq, i + 1, text, default)

RECURSIVE FirstDomain(_, _)
FirstDomain(i, text) ==
    IF i > Len(DomainMap) THEN "general"
    ELSE IF Contains(text, DomainMap[i][1]) THEN DomainMap[i][2]
    ELSE FirstDomain(i + 1, text)

\* order: the order in which this run iterates the read_verbs set
InferCapabilities(name, description, order) ==
    LET cat == ConcatText(name, description)
    IN  IF ~cat.ok THEN cat
        ELSE LET text == Lower(cat.val)
                 has_side_effects == \E v \in SideEffectVerbs : Contains(text, v)
                 action == FirstMatch(order, 1, text,
                                      IF has_side_effects THEN "write" ELSE "read")
                 domain == FirstDomain(1, text)
             IN  Ok(ToolCapability(action, domain, has_side_effects,
                                   ~has_side_effects, "unknown"))

(***************************************************************************)
(* parsers/openai.py, anthropic.py, mcp.py, langchain.py                   *)
(* d is the dict tool_def; order the iteration order of read_verbs.        *)
(***************************************************************************)
\* tool_def.get("type") == "function" and "function" in tool_def
IsWrapped(d) ==
    /\ "type" \in DOMAIN d
    /\ IsStr(d["type"])
    /\ d["type"].v = "function"
    /\ "function" \in DOMAIN d

OpenAICanParse(d) ==
    \/ IsWrapped(d)
    \/ ("name" \in DOMAIN d /\ "parameters" \in DOMAIN d)

OpenAIParse(d, order) ==
    LET func == IF IsWrapped(d) THEN d["function"] ELSE Obj(d)
    IN  IF ~IsDict(func) THEN Raise(NoGetAttr(func))
        ELSE LET name         == DictGet(func.v, "name", Str(""))
                 description  == DictGet(func.v, "description", Str(""))
                 parameters   == DictGet(func.v, "parameters", Obj(EmptyDict))
                 capabilities == InferCapabilities(name, description, order)
             IN  IF ~capabilities.ok THEN capabilities
                 ELSE CanonicalTool(name, description, capabilities.val,
                                    parameters, "openai", d)

AnthropicCanParse(d) == "input_schema" \in DOMAIN d /\ "name" \in DOMAIN d

AnthropicParse(d, order) ==
    LET name         == DictGet(d, "name", Str(""))
        description  == DictGet(d, "description", Str(""))
        input_schema == DictGet(d, "input_schema", Obj(EmptyDict))
        capabilities == InferCapabilities(name, description, order)
    IN  IF ~capabilities.ok THEN capabilities
        ELSE CanonicalTool(name, description, capabilities.val,
                           input_schema, "anthropic", d)

MCPCanParse(d) ==
    ("inputSchema" \in DOMAIN d \/ "input_schema" \in DOMAIN d)
    /\ "name" \in DOMAIN d

\* mutant: the tool is tagged with the Anthropic format
MCPParseTaggedAnthropic(d, order) ==
    LET name         == DictGet(d, "name", Str(""))
        description  == DictGet(d, "description", Str(""))
        input_schema == DictGet(d, "inputSchema",
                                DictGet(d, "input_schema", Obj(EmptyDict)))
        capabilities == InferCapabilities(name, description, order)
    IN  IF ~capabilities.ok THEN capabilities
        ELSE CanonicalTool(name, description, capabilities.val,
                           input_schema, "anthropic", d)

\* mutant: input_schema is preferred to inputSchema
MCPParseSnakeFirst(d, order) ==
    LET name         == DictGet(d, "name", Str(""))
        description  == DictGet(d, "description", Str(""))
        input_schema == DictGet(d, "input_schema",
                                DictGet(d, "inputSchema", Obj(EmptyDict)))
        capabilities == InferCapabilities(name, description, order)
    IN  IF ~capabilities.ok THEN capabilities
        ELSE CanonicalTool(name, description, capabilities.val,
                           input_schema, "mcp", d)

MCPParse(d, order) ==
    LET name         == DictGet(d, "name", Str(""))
        description  == DictGet(d, "description", Str(""))
        input_schema == DictGet(d, "inputSchema",
                                DictGet(d, "input_schema", Obj(EmptyDict)))
        capabilities == InferCapabilities(name, description, order)
    IN  IF ~capabilities.ok THEN capabilities
        ELSE CanonicalTool(name, description, capabilities.val,
                           input_schema, "mcp", d)

\* mutant: the bare-properties form is accepted without a name
LangChainCanParseWithoutName(d) ==
    \/ "args_schema" \in DOMAIN d
    \/ "schema" \in DOMAIN d
    \/ ("description" \in DOMAIN d /\ "properties" \in DOMAIN d)

LangChainCanParse(d) ==
    \/ "args_schema" \in DOMAIN d
    \/ "schema" \in DOMAIN d
    \/ ("name" \in DOMAIN d /\ "description" \in DOMAIN d
        /\ "properties" \in DOMAIN d)

RECURSIVE ModelFieldsLoopOptional(_, _, _, _)
\* mutant: a field is required only when its is_required is present and true
ModelFieldsLoopOptional(fields, names, i, acc) ==
    IF i > Len(names)
    THEN Ok(Obj([type |-> Str("object"),
                 properties |-> Obj(acc.properties),
                 required |-> Arr(acc.required)]))
    ELSE ModelFieldsLoopOptional(fields, names, i + 1,
            [properties |-> DictPut(acc.properties, names[i],
                                    Obj([type |-> Str("string")])),
             required |->
                IF Truthy(DictGet(fields[names[i]].v, "is_required",
                                  Bool(FALSE)))
                THEN Append(acc.required, Str(names[i]))
                ELSE acc.required])

\* the model_fields loop of _extract_schema from the i-th field on:
\* acc = [properties, required] built so far
RECURSIVE ModelFieldsLoop(_, _, _, _)
ModelFieldsLoop(fields, names, i, acc) ==
    IF i > Len(names)
    THEN Ok(Obj([type |-> Str("object"),
                 properties |-> Obj(acc.properties),
                 required |-> Arr(acc.required)]))
    ELSE LET field_name == names[i]
             field_info == fields[field_name]
         IN  IF ~IsDict(field_info) THEN Raise(NoGetAttr(field_info))
             ELSE ModelFieldsLoop(fields, names, i + 1,
                    [properties |-> DictPut(acc.properties, field_name,
                                            Obj([type |-> Str("string")])),
                     required |->
                        IF Truthy(DictGet(field_info.v, "is_required", Bool(TRUE)))
                        THEN Append(acc.required, Str(field_name))
                        ELSE acc.required])

ExtractSchema(schema) ==
    IF ~IsDict(schema) THEN Raise(NoGetAttr(schema))
    ELSE IF \/ ( /\ "type" \in DOMAIN schema.v
                  /\ IsStr(schema.v["type"])
                  /\ schema.v["type"].v = "object" )
            \/ "properties" \in DOMAIN schema.v
    THEN Ok(Obj([type |-> Str("object"),
                 properties |-> DictGet(schema.v, "properties", Obj(EmptyDict)),
                 required |-> DictGet(schema.v, "required", Arr(<<>>))]))
    ELSE IF "model_fields" \in DOMAIN schema.v
    THEN LET fields == schema.v["model_fields"]
         IN  IF ~IsDict(fields)
             THEN Raise("'" \o TypeName(fields)
                        \o "' object has no attribute 'items'")
             ELSE ModelFieldsLoop(fields.v, DictKeys(fields.v), 1,
                                  [properties |-> EmptyDict, required |-> <<>>])
    ELSE Ok(schema)

LangChainInputs(d) ==
    IF "args_schema" \in DOMAIN d THEN ExtractSchema(d["args_schema"])
    ELSE IF "schema" \in DOMAIN d THEN ExtractSchema(d["schema"])
    ELSE IF "parameters" \in DOMAIN d THEN Ok(d["parameters"])
    ELSE IF "properties" \in DOMAIN d
    THEN Ok(Obj([type |-> Str("object"),
                 properties |-> d["properties"],
                 required |-> DictGet(d, "required", Arr(<<>>))]))
    ELSE Ok(Obj(EmptyDict))

LangChainParse(d, order) ==
    LET name        == DictGet(d, "name", DictGet(d, "title", Str("")))
        description == DictGet(d, "description", Str(""))
        inputs      == LangChainInputs(d)
    IN  IF ~inputs.ok THEN inputs
        ELSE LET capabilities == InferCapabilities(name, description, order)
             IN  IF ~capabilities.ok THEN capabilities
                 ELSE CanonicalTool(name, description, capabilities.val,
                                    inputs.val, "langchain", d)

(***************************************************************************)
(* core.py: FormatDetector                                                 *)
(***************************************************************************)
\* mutant: mcp listed before anthropic
DetectorParsersMcpFirst == <<"openai", "mcp", "anthropic", "langchain">>

\* FormatDetector._parsers, in list order
DetectorParsers == <<"openai", "anthropic", "mcp", "langchain">>

CanParse(fmt, d) ==
    CASE fmt = "openai"    -> OpenAICanParse(d)
      [] fmt = "anthropic" -> AnthropicCanParse(d)
      [] fmt = "mcp"       -> MCPCanParse(d)
      [] fmt = "langchain" -> LangChainCanParse(d)

RECURSIVE DetectFrom(_, _)
DetectFrom(d, i) ==
    IF i > Len(DetectorParsers) THEN "raw"
    ELSE IF CanParse(DetectorParsers[i], d) THEN DetectorParsers[i]
    ELSE DetectFrom(d, i + 1)

\* mutant: the loop starts at the second parser
DetectSkipsFirst(d) == DetectFrom(d, 2)

Detect(d) == DetectFrom(d, 1)

\* mutant: the anthropic and mcp scores are taken from the parsers' can_parse
ConfidenceFromCanParse(d) ==
    [f \in SourceFormat |->
        CASE f = "openai"    -> IF IsWrapped(d) THEN 10
                                ELSE IF "parameters" \in DOMAIN d
                                        /\ "name" \in DOMAIN d THEN 7
                                ELSE 0
          [] f = "anthropic" -> IF AnthropicCanParse(d) THEN 10 ELSE 0
          [] f = "mcp"       -> IF MCPCanParse(d) THEN 10 ELSE 0
          [] f = "langchain" -> IF "args_schema" \in DOMAIN d
                                   \/ "schema" \in DOMAIN d THEN 9
                                ELSE IF "properties" \in DOMAIN d
                                        /\ "name" \in DOMAIN d THEN 6
                                ELSE 0
          [] f = "raw"       -> 1]

\* FormatDetector.confidence: the scores dict.  A score is written in tenths
\* (1.0 is 10, 0.7 is 7, 0.1 is 1), every score of the source being a multiple
\* of 0.1.
Confidence(d) ==
    LET openai_score ==
            IF IsWrapped(d) THEN 10
            ELSE IF "parameters" \in DOMAIN d /\ "name" \in DOMAIN d THEN 7
            ELSE 0
        anthropic_score ==
            IF "input_schema" \in DOMAIN d /\ "name" \in DOMAIN d THEN 10 ELSE 0
        mcp_score ==
            IF "inputSchema" \in DOMAIN d /\ "name" \in DOMAIN d THEN 10 ELSE 0
        lc_score ==
            IF "args_schema" \in DOMAIN d \/ "schema" \in DOMAIN d THEN 9
            ELSE IF "properties" \in DOMAIN d /\ "name" \in DOMAIN d THEN 6
            ELSE 0
    IN  [f \in SourceFormat |->
            CASE f = "openai"    -> openai_score
              [] f = "anthropic" -> anthropic_score
              [] f = "mcp"       -> mcp_score
              [] f = "langchain" -> lc_score
              [] f = "raw"       -> 1]

(***************************************************************************)
(* core.py: Canonicalizer                                                  *)
(***************************************************************************)
\* the keys of Canonicalizer._parsers
CanonicalizerParsers == {"openai", "anthropic", "mcp", "langchain"}

Parse(fmt, d, order) ==
    CASE fmt = "openai"    -> OpenAIParse(d, order)
      [] fmt = "anthropic" -> AnthropicParse(d, order)
      [] fmt = "mcp"       -> MCPParse(d, order)
      [] fmt = "langchain" -> LangChainParse(d, order)

WarnUndetected == "Could not detect source format; using raw passthrough."
WarnHeuristic  == "No parser for 'raw' format; extracted fields by heuristic."
\* (the source's em dash is written "-": the module is ASCII)
WarnNoName     == "Tool has no name - consider adding one."
WarnNoDescription == "Tool has no description - consider adding one."
WarnParserError(fmt, exc) == "Parser error for " \o fmt \o ": " \o exc

\* mutant: the first key present wins, whatever its value
RawNameFirstPresent(d) ==
    IF "name" \in DOMAIN d THEN Ok(d["name"])
    ELSE IF "title" \in DOMAIN d THEN Ok(d["title"])
    ELSE LET func == DictGet(d, "function", Obj(EmptyDict))
         IN  IF ~IsDict(func) THEN Raise(NoGetAttr(func))
             ELSE Ok(DictGet(func.v, "name", Str("")))

\* tool_def.get("name") or tool_def.get("title")
\*   or tool_def.get("function", {}).get("name", "")
RawName(d) ==
    LET first == PyOr(DictGetNone(d, "name"), DictGetNone(d, "title"))
    IN  IF Truthy(first) THEN Ok(first)
        ELSE LET func == DictGet(d, "function", Obj(EmptyDict))
             IN  IF ~IsDict(func) THEN Raise(NoGetAttr(func))
                 ELSE Ok(DictGet(func.v, "name", Str("")))

\* mutant: input_schema is tried before parameters
RawInputsSchemaFirst(d) ==
    PyOr(PyOr(PyOr(PyOr(DictGetNone(d, "input_schema"),
                        DictGetNone(d, "parameters")),
                   DictGetNone(d, "inputSchema")),
              DictGetNone(d, "schema")),
         Obj(EmptyDict))

\* tool_def.get("parameters") or ... or tool_def.get("schema") or {}
RawInputs(d) ==
    PyOr(PyOr(PyOr(PyOr(DictGetNone(d, "parameters"),
                        DictGetNone(d, "input_schema")),
                   DictGetNone(d, "inputSchema")),
              DictGetNone(d, "schema")),
         Obj(EmptyDict))

RawCanonicalize(d) ==
    LET name == RawName(d)
    IN  IF ~name.ok THEN name
        ELSE LET description == DictGet(d, "description", Str(""))
             IN  CanonicalTool(Str(PyStr(name.val)), Str(PyStr(description)),
                               DefaultToolCapability, RawInputs(d), "raw", d)

\* mutant: the description is checked only when the name is present (elif)
PostWarningsElif(tool) ==
    IF tool.name = "" THEN <<WarnNoName>>
    ELSE IF tool.description = "" THEN <<WarnNoDescription>>
    ELSE <<>>

\* the checks on the tool after either path
PostWarnings(tool) ==
    (IF tool.name = "" THEN <<WarnNoName>> ELSE <<>>)
    \o (IF tool.description = "" THEN <<WarnNoDescription>> ELSE <<>>)

ResolveFormat(d, override) == IF override = "none" THEN Detect(d) ELSE override

\* mutant: the warning is added on every auto-detection
DetectionWarningsAlways(override, detected) ==
    IF override = "none" THEN <<WarnUndetected>> ELSE <<>>

\* the warning of the detection step
DetectionWarnings(override, detected) ==
    IF override = "none" /\ detected = "raw" THEN <<WarnUndetected>> ELSE <<>>

\* mutant: the fallback warning is added before the detection warning
FallbackWarningsFirst(warnings, extra) == extra \o warnings

\* warnings.append(...) of the extraction step
FallbackWarnings(warnings, extra) == warnings \o extra

\* the parser.parse(tool_def) call of canonicalize: NotCalled when the resolved
\* format has no parser
NotCalled == [ok |-> FALSE, exc |-> "", called |-> FALSE]

ParserCall(d, override, order) ==
    LET detected == ResolveFormat(d, override)
    IN  IF detected \in CanonicalizerParsers THEN Parse(detected, d, order)
        ELSE NotCalled

\* canonicalize(tool_def, source_format), parsed being what ParserCall gave
CanonicalizeWith(d, override, parsed) ==
    LET detected == ResolveFormat(d, override)
        warnings0 == DetectionWarnings(override, detected)
    IN  IF detected \notin CanonicalizerParsers
        THEN LET raw == RawCanonicalize(d)
             IN  IF ~raw.ok THEN raw
                 ELSE Ok(CanonicalizationResult(raw.val,
                         FallbackWarnings(warnings0, <<WarnHeuristic>>)
                            \o PostWarnings(raw.val),
                         detected))
        ELSE IF parsed.ok
        THEN Ok(CanonicalizationResult(parsed.val,
                    warnings0 \o PostWarnings(parsed.val), detected))
        ELSE LET raw == RawCanonicalize(d)
             IN  IF ~raw.ok THEN raw
                 ELSE Ok(CanonicalizationResult(raw.val,
                         FallbackWarnings(warnings0,
                            <<WarnParserError(detected, parsed.exc)>>)
                            \o PostWarnings(raw.val),
                         detected))

Canonicalize(d, override, order) ==
    CanonicalizeWith(d, override, ParserCall(d, override, order))

(***************************************************************************)
(* emitter.py.  A tool is the record CanonicalTool builds; an emitted      *)
(* document is a dict of JSON values.                                      *)
(***************************************************************************)
ToolSecurity(required_permissions, data_classification, pii_handling) ==
    [required_permissions |-> required_permissions,
     data_classification |-> data_classification,
     pii_handling |-> pii_handling]

\* {"type": "object", "properties": {}}
DefaultInputs == [type |-> Str("object"), properties |-> Obj(EmptyDict)]

\* tool.inputs or {"type": "object", "properties": {}}
InputsOrDefault(inputs) == IF DOMAIN inputs # {} THEN inputs ELSE DefaultInputs

\* {**a, **b}, a.update(b): the keys of both, b's value where both hold a key
DictUpdate(a, b) ==
    [k \in DOMAIN a \cup DOMAIN b |-> IF k \in DOMAIN b THEN b[k] ELSE a[k]]

\* mutant: type "object" is set whatever the schema holds
NormalizedSchemaForcesType(inputs) ==
    DictPut(InputsOrDefault(inputs), "type", Str("object"))

\* the schema the openai, anthropic and mcp emitters emit:
\*   parameters = tool.inputs or {...}
\*   if "type" not in parameters: parameters = {"type": "object", **parameters}
NormalizedSchema(inputs) ==
    LET parameters == InputsOrDefault(inputs)
    IN  IF "type" \notin DOMAIN parameters
        THEN DictUpdate([type |-> Str("object")], parameters)
        ELSE parameters

emit_openai(t) ==
    [type |-> Str("function"),
     function |-> Obj([name |-> Str(t.name),
                       description |-> Str(t.description),
                       parameters |-> Obj(NormalizedSchema(t.inputs))])]

emit_anthropic(t) ==
    [name |-> Str(t.name),
     description |-> Str(t.description),
     input_schema |-> Obj(NormalizedSchema(t.inputs))]

\* mutant: the schema is emitted under the snake_case key
emit_mcp_snake_case(t) ==
    [name |-> Str(t.name),
     description |-> Str(t.description),
     input_schema |-> Obj(NormalizedSchema(t.inputs))]

emit_mcp(t) ==
    [name |-> Str(t.name),
     description |-> Str(t.description),
     inputSchema |-> Obj(NormalizedSchema(t.inputs))]

SchemaURI == "https://json-schema.org/draft/2019-09/schema"

\* the "x-capabilities" value
XCapabilities(c) ==
    Obj([action |-> Str(c.action),
         domain |-> Str(c.domain),
         side_effects |-> Bool(c.side_effects),
         idempotent |-> Bool(c.idempotent),
         cost_estimate |-> Str(c.cost_estimate)])

\* the "x-security" value
XSecurity(s) ==
    Obj([required_permissions |->
            Arr([i \in 1..Len(s.required_permissions) |->
                    Str(s.required_permissions[i])]),
         data_classification |-> Str(s.data_classification),
         pii_handling |-> Str(s.pii_handling)])

\* the three keys base starts with
JsonSchemaBase(t) ==
    [k \in {"$schema", "title", "description"} |->
        CASE k = "$schema"     -> Str(SchemaURI)
          [] k = "title"       -> Str(t.name)
          [] k = "description" -> Str(t.description)]

\* mutant: x-security is written also when the tool has none
WithSecurityAlways(base, t) ==
    DictPut(base, "x-security",
            IF t.security = Null THEN Null ELSE XSecurity(t.security))

\* if tool.security: base["x-security"] = {...}
WithSecurity(base, t) ==
    IF t.security # Null THEN DictPut(base, "x-security", XSecurity(t.security))
    ELSE base

emit_json_schema(t) ==
    LET inputs == InputsOrDefault(t.inputs)
        base1  == DictUpdate(JsonSchemaBase(t), inputs)
        base2  == IF DOMAIN t.outputs # {}
                  THEN DictPut(base1, "x-outputs", Obj(t.outputs))
                  ELSE base1
        base3  == DictPut(base2, "x-capabilities", XCapabilities(t.capabilities))
    IN  WithSecurity(base3, t)

\* emitter_map of the command line: the emitter of each target
Targets == {"openai", "anthropic", "mcp", "json-schema"}

Emit(tgt, t) ==
    CASE tgt = "openai"      -> emit_openai(t)
      [] tgt = "anthropic"   -> emit_anthropic(t)
      [] tgt = "mcp"         -> emit_mcp(t)
      [] tgt = "json-schema" -> emit_json_schema(t)

(***************************************************************************)
(* The documents of the model: at most MaxKeys of the top-level keys, each *)
(* with one of the values below (well-formed, empty, null, of a wrong      *)
(* type).                                                                  *)
(***************************************************************************)
MaxKeys == 3

StringProp == Obj([type |-> Str("string")])

SchemaQuery ==
    Obj([type |-> Str("object"),
         properties |-> Obj([query |-> StringProp]),
         required |-> Arr(<<Str("query")>>)])
SchemaPath ==
    Obj([type |-> Str("object"), properties |-> Obj([path |-> StringProp])])
SchemaNoType == Obj([properties |-> Obj([to |-> StringProp])])
\* a schema as a schema generator writes it, with a title of its own
SchemaTitled ==
    Obj([type |-> Str("object"), title |-> Str("SearchInput"),
         properties |-> Obj([query |-> StringProp])])
SchemaModelFields ==
    Obj([model_fields |->
            Obj([query |-> Obj(EmptyDict),
                 to |-> Obj([is_required |-> Bool(FALSE)])])])

TopKeys ==
    << "type", "function", "name", "title", "description", "parameters",
       "input_schema", "inputSchema", "schema", "args_schema", "properties",
       "required" >>

ValuesOf(k) ==
    CASE k = "type"         -> {Str("function"), Str("object")}
      [] k = "function"     -> {Obj(EmptyDict),
                                Obj([name |-> Str("search_web"),
                                     description |-> Str("Search the web"),
                                     parameters |-> SchemaQuery]),
                                Obj([name |-> Null]),
                                Str("fn")}
      [] k = "name"         -> {Str(""), Str("get_file"), Null, Num(5)}
      [] k = "title"        -> {Str(""), Str("Send Email")}
      [] k = "description"  -> {Str(""), Str("Read a file"), Null}
      [] k = "parameters"   -> {Obj(EmptyDict), SchemaQuery, SchemaTitled, Null,
                                Str("p")}
      [] k = "input_schema" -> {Obj(EmptyDict), SchemaPath, Null}
      [] k = "inputSchema"  -> {Obj(EmptyDict), SchemaNoType, Arr(<<Str("x")>>)}
      [] k = "schema"       -> {SchemaPath, SchemaModelFields, Num(0)}
      [] k = "args_schema"  -> {SchemaQuery, SchemaModelFields, Str("Args")}
      [] k = "properties"   -> {Obj([path |-> StringProp]), Null}
      [] k = "required"     -> {Arr(<<Str("path")>>)}

\* the documents that use the keys TopKeys[i..] only and hold at most n keys
RECURSIVE DocsFrom(_, _)
DocsFrom(i, n) ==
    IF i > Len(TopKeys) \/ n = 0 THEN {EmptyDict}
    ELSE DocsFrom(i + 1, n)
         \cup { DictPut(d, TopKeys[i], v) :
                    d \in DocsFrom(i + 1, n - 1), v \in ValuesOf(TopKeys[i]) }

Documents == DocsFrom(1, MaxKeys)

Overrides == {"none"} \cup SourceFormat

\* The read_verbs set literal iterates in an order fixed by the string hashes of
\* the run, and the loop breaks at the first verb found.  No text of the model
\* holds more than two read verbs, so the written order and its reverse give
\* every result an iteration order can give.
Reverse(s) == [i \in 1..Len(s) |-> s[Len(s) + 1 - i]]
ReadVerbOrders == {ReadVerbs, Reverse(ReadVerbs)}


(***************************************************************************)
(* The tools handed to the emitters directly: a name, a description, the   *)
(* capabilities, an inputs schema of at most MaxSchemaKeys keys (among     *)
(* them the keys emit_json_schema writes itself), outputs, security.       *)
(***************************************************************************)
MaxSchemaKeys == 3

SchemaKeys ==
    << "type", "properties", "required", "title", "description", "$schema",
       "x-outputs", "x-capabilities", "x-security" >>

SchemaValuesOf(k) ==
    CASE k = "type"        -> {Str("object"), Str("string")}
      [] k = "properties"  -> {Obj(EmptyDict), Obj([query |-> StringProp])}
      [] k = "required"    -> {Arr(<<Str("query")>>)}
      [] k = "title"       -> {Str("SearchInput")}
      [] k = "description" -> {Str("The arguments")}
      [] k = "$schema"     -> {Str("http://json-schema.org/draft-07/schema#")}
      [] k = "x-outputs"   -> {Obj([type |-> Str("string")])}
      [] k = "x-capabilities" -> {Null}
      [] k = "x-security"  -> {Null}

\* the schemas that use the keys SchemaKeys[i..] only and hold at most n keys
RECURSIVE SchemasFrom(_, _)
SchemasFrom(i, n) ==
    IF i > Len(SchemaKeys) \/ n = 0 THEN {EmptyDict}
    ELSE SchemasFrom(i + 1, n)
         \cup { DictPut(s, SchemaKeys[i], v) :
                    s \in SchemasFrom(i + 1, n - 1),
                    v \in SchemaValuesOf(SchemaKeys[i]) }

Schemas == SchemasFrom(1, MaxSchemaKeys)

Tools ==
    [name : {"", "search_web"},
     version : {"1.0.0"},
     description : {"", "Search the web"},
     capabilities : {DefaultToolCapability,
                     ToolCapability("write", "filesystem", TRUE, FALSE, "free")},
     inputs : Schemas,
     outputs : {EmptyDict, [type |-> Str("object")]},
     security : {Null, ToolSecurity(<<"internet">>, "public", "none")},
     source_format : {"raw"},
     original_definition : {EmptyDict}]

(***************************************************************************)
(* The (name, description) pairs handed to _infer_capabilities directly.   *)
(* A name or a description holds at most one read verb, so a text holds at *)
(* most two; some hold a verb inside another word or in upper case.        *)
(***************************************************************************)
InferNames ==
    {"", "get_file", "search_web", "write_file", "delete_record", "send_email",
     "run_sql", "budget", "playlist", "UPDATE_ROW", "mystery_tool"}

InferDescriptions ==
    {"", "Read a file", "Search the web", "Write content to disk",
     "Query Postgres", "Creates a new record", "Remove and save",
     "Fetch a page", "Find items", "Does something"}

(***************************************************************************)
(* async_core.py: AsyncCanonicalizer.  The service is the record of its    *)
(* lifecycle state (status.state of the AsyncService base), whether        *)
(* _canonicalizer and _detector are set, and status.request_count.  Of the *)
(* AsyncService base only what the wrapper relies on is modelled: start    *)
(* runs on_start and the service is running, stop runs on_stop and the     *)
(* service is stopped, start on a running service raises RuntimeError,     *)
(* increment_request_count adds one.                                       *)
(***************************************************************************)
RuntimeError(m) == [ok |-> FALSE, exc |-> m, type |-> "RuntimeError"]

NotRunning ==
    "AsyncCanonicalizer is not running. "
    \o "Call await service.start() or use it as an async context manager."

\* AsyncCanonicalizer(config): __init__
NewService ==
    [state |-> "created", canonicalizer |-> FALSE, detector |-> FALSE,
     request_count |-> 0]

on_start(svc) == [svc EXCEPT !.canonicalizer = TRUE, !.detector = TRUE]

on_stop(svc) == [svc EXCEPT !.canonicalizer = FALSE, !.detector = FALSE]

health_check(svc) == svc.canonicalizer /\ svc.detector

increment_request_count(svc) ==
    [svc EXCEPT !.request_count = svc.request_count + 1]

\* the keyword arguments of _emitter.emit("tool.canonicalized", ...)
CanonicalizedEvent(result) ==
    [event |-> "tool.canonicalized",
     tool_name |-> result.tool.name,
     source_format |-> result.source_format_detected,
     warning_count |-> Len(result.warnings),
     result |-> result]

FormatDetectedEvent(detected) ==
    [event |-> "tool.format_detected", source_format |-> detected]

\* mutant: the request is counted before the service is found not running
AsyncCanonicalizeCountsFirst(svc, log, d, override, order) ==
    LET counted == increment_request_count(svc)
    IN  IF ~svc.canonicalizer
        THEN [service |-> counted, emitter |-> log, core |-> 0,
              outcome |-> RuntimeError(NotRunning)]
        ELSE LET result == Canonicalize(d, override, order)
             IN  [service |-> counted,
                  emitter |-> IF result.ok
                              THEN Append(log, CanonicalizedEvent(result.val))
                              ELSE log,
                  core |-> 1,
                  outcome |-> result]

\* AsyncCanonicalizer.canonicalize(tool_def, source_format): the service and
\* the event log after the call, the number of calls made to the core, and the
\* outcome.  An exception of the core leaves through the method, after the
\* request was counted and before the event.
AsyncCanonicalize(svc, log, d, override, order) ==
    IF ~svc.canonicalizer
    THEN [service |-> svc, emitter |-> log, core |-> 0,
          outcome |-> RuntimeError(NotRunning)]
    ELSE LET counted == increment_request_count(svc)
             result == Canonicalize(d, override, order)
         IN  [service |-> counted,
              emitter |-> IF result.ok
                          THEN Append(log, CanonicalizedEvent(result.val))
                          ELSE log,
              core |-> 1,
              outcome |-> result]

\* AsyncCanonicalizer.detect_format(tool_def)
DetectFormat(svc, log, d) ==
    IF ~svc.detector
    THEN [service |-> svc, emitter |-> log,
          outcome |-> RuntimeError(NotRunning)]
    ELSE [service |-> svc,
          emitter |-> Append(log, FormatDetectedEvent(Detect(d))),
          outcome |-> Ok(Detect(d))]

\* AsyncCanonicalizer.confidence(tool_def)
AsyncConfidence(svc, log, d) ==
    IF ~svc.detector
    THEN [service |-> svc, emitter |-> log,
          outcome |-> RuntimeError(NotRunning)]
    ELSE [service |-> svc, emitter |-> log, outcome |-> Ok(Confidence(d))]

(***************************************************************************)
(* integration.py: ToolCanonIntegration on an AumOS hub.  The hub is the   *)
(* list of registered service names, the set of event-bus subscriptions    *)
(* (id, pattern, subscriber), the number of subscription ids issued, and   *)
(* the events published.  Of the hub only what the adapter relies on is    *)
(* modelled: register adds a service, unregister removes the services of   *)
(* that name, subscribe adds a subscription under a fresh id, unsubscribe  *)
(* removes the subscription of that id.                                    *)
(***************************************************************************)
SERVICE_NAME == "toolcanon"

\* hub.register(service_info)
HubRegister(h, name) == [h EXCEPT !.services = Append(h.services, name)]

\* hub.unregister(name)
HubUnregister(h, name) ==
    [h EXCEPT !.services = SelectSeq(h.services, LAMBDA n : n # name)]

\* hub.events.subscribe(pattern, handler, subscriber): the id is h.issued + 1
HubSubscribe(h, pattern, subscriber) ==
    [h EXCEPT !.issued = h.issued + 1,
              !.subscriptions =
                  h.subscriptions
                  \cup {[id |-> h.issued + 1, pattern |-> pattern,
                         subscriber |-> subscriber]}]

\* hub.events.unsubscribe(subscription_id)
HubUnsubscribe(h, id) ==
    [h EXCEPT !.subscriptions = {s \in h.subscriptions : s.id # id}]

\* mutant: setup without the _is_set_up guard
SetupUnguarded(integ, h) ==
    LET registered == HubRegister(h, SERVICE_NAME)
        subscribed == HubSubscribe(registered, "tool.registered", SERVICE_NAME)
    IN  [integration |-> [integ EXCEPT !.subscription_id = subscribed.issued,
                                       !.is_set_up = TRUE],
         hub |-> subscribed]

\* ToolCanonIntegration.setup()
Setup(integ, h) ==
    IF integ.is_set_up THEN [integration |-> integ, hub |-> h]
    ELSE LET registered == HubRegister(h, SERVICE_NAME)
             subscribed ==
                 HubSubscribe(registered, "tool.registered", SERVICE_NAME)
         IN  [integration |-> [integ EXCEPT !.subscription_id = subscribed.issued,
                                            !.is_set_up = TRUE],
              hub |-> subscribed]

\* ToolCanonIntegration.teardown()
Teardown(integ, h) ==
    IF ~integ.is_set_up THEN [integration |-> integ, hub |-> h]
    ELSE LET unsubscribed ==
                 IF integ.subscription_id # 0
                 THEN HubUnsubscribe(h, integ.subscription_id)
                 ELSE h
         IN  [integration |-> [integ EXCEPT !.subscription_id = 0,
                                            !.is_set_up = FALSE],
              hub |-> HubUnregister(unsubscribed, SERVICE_NAME)]

\* the event publish_canonicalized hands to hub.events.publish_simple
PublishedEvent(result) ==
    [event_type |-> "tool.canonicalized",
     source |-> SERVICE_NAME,
     data |-> [tool_name |-> result.tool.name,
               source_format |-> result.source_format_detected,
               warning_count |-> Len(result.warnings),
               warnings |-> result.warnings,
               canonical_tool |-> result.tool]]

\* publish_canonicalized(result); delivers: publish_simple returns (it raises
\* otherwise)
publish_canonicalized(h, result, delivers) ==
    IF delivers
    THEN [hub |-> [h EXCEPT !.published =
                                Append(h.published, PublishedEvent(result))],
          outcome |-> Ok(Null)]
    ELSE [hub |-> h, outcome |-> Raise("publish_simple failed")]

\* _get_or_create_canonicalizer(): the service in use after the call
GetOrCreateCanonicalizer(integ, svc) ==
    IF integ.canonicalizer = "none" THEN NewService ELSE svc

\* event.data.get("tool_def")
EventToolDef(data) == DictGetNone(data, "tool_def")

\* canonicalizer.canonicalize(tool_def) on the running service, else
\* Canonicalizer().canonicalize(tool_def)
CanonicalizeThrough(svc, log, d, order) ==
    IF svc.state = "running"
    THEN AsyncCanonicalize(svc, log, d, "none", order)
    ELSE [service |-> svc, emitter |-> log, core |-> 1,
          outcome |-> Canonicalize(d, "none", order)]

\* await self.publish_canonicalized(result), which the exception of the
\* canonicalization does not reach
PublishResult(h, through, delivers) ==
    IF through.outcome.ok
    THEN publish_canonicalized(h, through.outcome.val, delivers)
    ELSE [hub |-> h, outcome |-> through.outcome]

\* the state the try block leaves, and its outcome
TryBlock(integ, through, sent) ==
    [integration |-> [integ EXCEPT !.canonicalizer =
                         IF @ = "none" THEN "created" ELSE @],
     service |-> through.service, emitter |-> through.emitter,
     hub |-> sent.hub, core |-> through.core, outcome |-> sent.outcome]

\* the body of the try block of _on_tool_registered: canonicalize through the
\* running service or through a Canonicalizer(), then publish
HandleToolDef(integ, h, through, delivers) ==
    TryBlock(integ, through, PublishResult(h, through, delivers))

\* except Exception: logged, not raised
ExceptException(done) == [done EXCEPT !.outcome = Ok(Null)]

\* mutant: no try/except around the canonicalization and the publication
on_tool_registered_unprotected(integ, svc, log, h, data, delivers, order) ==
    IF ~IsDict(EventToolDef(data))
    THEN [integration |-> integ, service |-> svc, emitter |-> log,
          hub |-> h, core |-> 0, outcome |-> Ok(Null)]
    ELSE HandleToolDef(integ, h,
             CanonicalizeThrough(GetOrCreateCanonicalizer(integ, svc), log,
                                 EventToolDef(data).v, order),
             delivers)

\* ToolCanonIntegration._on_tool_registered(event), event.data being data
on_tool_registered(integ, svc, log, h, data, delivers, order) ==
    IF ~IsDict(EventToolDef(data))
    THEN [integration |-> integ, service |-> svc, emitter |-> log,
          hub |-> h, core |-> 0, outcome |-> Ok(Null)]
    ELSE ExceptException(
             HandleToolDef(integ, h,
                 CanonicalizeThrough(GetOrCreateCanonicalizer(integ, svc), log,
                                     EventToolDef(data).v, order),
                 delivers))

(***************************************************************************)
(* The documents handed to the service: an OpenAI tool, an Anthropic tool, *)
(* the empty document, and one whose raw extraction raises.                *)
(***************************************************************************)
MaxCalls == 4

ServiceDocuments ==
    { [type |-> Str("function"),
       function |-> Obj([name |-> Str("search_web"),
                         description |-> Str("Search the web"),
                         parameters |-> SchemaQuery])],
      [name |-> Str("get_file"), description |-> Str("Read a file"),
       input_schema |-> SchemaPath],
      EmptyDict,
      [parameters |-> Str("p")] }

ServiceOverrides == {"none", "raw"}

(***************************************************************************)
(* store.py: StoredTool.from_canonical_tool.  The record holds the fields  *)
(* derived from the tool; id and created_at are generated and              *)
(* canonical_json is the tool's serialization, none of which the           *)
(* derivation of the tags reads.  An extras argument is None or a list.    *)
(***************************************************************************)
\* x if cond else []
ListIf(cond, x) == IF cond THEN <<x>> ELSE <<>>

\* if extra: tags.extend(extra)
Extended(tags, extra) ==
    IF extra # Null /\ extra.v # <<>> THEN tags \o extra.v ELSE tags

\* mutant: data_classification is appended also when it is "public"
from_canonical_tool_all_classes(t, extra_capabilities, extra_security_tags, extra_pii_tags) ==
    [name |-> t.name,
     source_format |-> t.source_format,
     capabilities |->
         Extended(ListIf(t.capabilities.action # "", t.capabilities.action)
                  \o ListIf(t.capabilities.domain # "", t.capabilities.domain)
                  \o ListIf(t.capabilities.side_effects, "side_effects"),
                  extra_capabilities),
     security_tags |->
         Extended(IF t.security # Null
                  THEN t.security.required_permissions
                       \o ListIf(t.security.data_classification # "",
                                 t.security.data_classification)
                  ELSE <<>>,
                  extra_security_tags),
     pii_tags |->
         Extended(IF t.security # Null
                  THEN ListIf(t.security.pii_handling \notin {"none", ""},
                              t.security.pii_handling)
                  ELSE <<>>,
                  extra_pii_tags)]

\* StoredTool.from_canonical_tool(tool, extra_capabilities,
\*                                extra_security_tags, extra_pii_tags)
from_canonical_tool(t, extra_capabilities, extra_security_tags, extra_pii_tags) ==
    [name |-> t.name,
     source_format |-> t.source_format,
     capabilities |->
         Extended(ListIf(t.capabilities.action # "", t.capabilities.action)
                  \o ListIf(t.capabilities.domain # "", t.capabilities.domain)
                  \o ListIf(t.capabilities.side_effects, "side_effects"),
                  extra_capabilities),
     security_tags |->
         Extended(IF t.security # Null
                  THEN t.security.required_permissions
                       \o ListIf(t.security.data_classification
                                     \notin {"public", ""},
                                 t.security.data_classification)
                  ELSE <<>>,
                  extra_security_tags),
     pii_tags |->
         Extended(IF t.security # Null
                  THEN ListIf(t.security.pii_handling \notin {"none", ""},
                              t.security.pii_handling)
                  ELSE <<>>,
                  extra_pii_tags)]

(***************************************************************************)
(* The tools handed to the store: every combination of an empty or set     *)
(* action and domain, side effects, and no security or a security of zero  *)
(* to two permissions, a classification and a PII handling.                *)
(***************************************************************************)
StoreSecurities ==
    {Null}
    \cup {ToolSecurity(p, c, h) :
            p \in {<<>>, <<"internet">>, <<"internet", "filesystem">>},
            c \in {"public", "", "confidential"},
            h \in {"none", "", "processes"}}

StoreTools ==
    [name : {"search_web"},
     version : {"1.0.0"},
     description : {"Search the web"},
     capabilities : {ToolCapability(a, d, s, ~s, "unknown") :
                        a \in {"", "search"}, d \in {"", "web"},
                        s \in BOOLEAN},
     inputs : {SchemaQuery.v},
     outputs : {EmptyDict},
     security : StoreSecurities,
     source_format : {"openai"},
     original_definition : {EmptyDict}]

\* an extras argument: None, an empty list, a list of one tag
Extras == {Null, Arr(<<>>), Arr(<<"extra">>)}

(***************************************************************************)
(* The documents handed to the LangChain parser: with or without a name    *)
(* and a description, and each of args_schema, schema, parameters,         *)
(* properties and required absent or holding one of the values below.      *)
(***************************************************************************)
SchemaTypeOnly == Obj([type |-> Str("object")])
SchemaNullProperties == Obj([type |-> Str("object"), properties |-> Null])
SchemaModelFieldsRequired ==
    Obj([model_fields |->
            Obj([path |-> Obj([is_required |-> Bool(TRUE)]),
                 to |-> Obj([is_required |-> Bool(FALSE)]),
                 query |-> Obj(EmptyDict)])])

\* the values of args_schema and of schema
CandidateSchemas ==
    {SchemaQuery, SchemaPath, SchemaNoType, SchemaTitled, SchemaTypeOnly,
     SchemaNullProperties, SchemaModelFields, SchemaModelFieldsRequired,
     StringProp, Obj(EmptyDict), Str("Args")}

\* the key is not in the document
Absent == [t |-> "absent"]

WithKey(d, k, v) == IF v = Absent THEN d ELSE DictPut(d, k, v)

LangChainDocuments ==
    { WithKey(WithKey(WithKey(WithKey(WithKey(base,
          "args_schema", a), "schema", s), "parameters", p),
          "properties", q), "required", r) :
        base \in {EmptyDict,
                  [name |-> Str("get_file"), description |-> Str("Read a file")]},
        a \in CandidateSchemas \cup {Absent},
        s \in CandidateSchemas \cup {Absent},
        p \in {Absent, SchemaQuery, StringProp, Null},
        q \in {Absent, Obj([path |-> StringProp])},
        r \in {Absent, Arr(<<Str("path")>>)} }

(***************************************************************************)
(* The calls                                                               *)
(***************************************************************************)
NoCall == [ok |-> FALSE, exc |-> "", called |-> FALSE]

\* no tool, no arguments
NoTool == [name |-> ""]
NoArgs == <<>>

\* the variables the calls on a document leave alone
others == <<again, args, canonical, target, emitted, reemitted>>

\* the variables of the service side, which the calls on a document leave alone
services == <<service, emitter, history, hub, integration, event>>

NoHistory == [steps |-> 0, calls |-> 0, core |-> 0]
NoHub ==
    [services |-> <<>>, subscriptions |-> {}, issued |-> 0, published |-> <<>>]
NoIntegration ==
    \* _subscription_id 0: None (the ids issued start at 1)
    [is_set_up |-> FALSE, subscription_id |-> 0, canonicalizer |-> "none"]
NoEvent == [data |-> EmptyDict, delivered |-> FALSE]

ServicesIdle ==
    /\ service = NewService
    /\ emitter = <<>>
    /\ history = NoHistory
    /\ hub = NoHub
    /\ integration = NoIntegration
    /\ event = NoEvent

Init ==
    /\ tool_def \in Documents
    /\ source_format = "none"
    /\ pc = "start"
    /\ outcome = NoCall
    /\ parser_outcome = NotCalled
    /\ again = NoCall
    /\ args = NoArgs
    /\ canonical = NoTool
    /\ target = "none"
    /\ emitted = NoCall
    /\ reemitted = NoCall
    /\ ServicesIdle

\* FormatDetector().detect(tool_def)
DetectCall ==
    /\ pc = "start"
    /\ pc' = "detected"
    /\ outcome' = Ok(Detect(tool_def))
    /\ UNCHANGED <<services, tool_def, source_format, parser_outcome, others>>

\* FormatDetector().confidence(tool_def)
ConfidenceCall ==
    /\ pc = "start"
    /\ pc' = "scored"
    /\ outcome' = Ok(Confidence(tool_def))
    /\ UNCHANGED <<services, tool_def, source_format, parser_outcome, others>>

\* Canonicalizer().canonicalize(tool_def, source_format)
CanonicalizeCall ==
    /\ pc = "start"
    /\ \E override \in Overrides, order \in ReadVerbOrders :
          LET parsed == ParserCall(tool_def, override, order)
          IN  /\ source_format' = override
              /\ parser_outcome' = parsed
              /\ outcome' = CanonicalizeWith(tool_def, override, parsed)
    /\ pc' = "canonicalized"
    /\ UNCHANGED <<services, tool_def, others>>

\* A second Canonicalizer().canonicalize(tool_def, source_format) on the same
\* document with the same override, made by another run of the program: the
\* iteration order of the read_verbs set is fixed by the hash seed of the
\* interpreter, which each run draws anew.
CanonicalizeAgainCall ==
    /\ pc = "canonicalized"
    /\ pc' = "repeated"
    /\ \E order \in ReadVerbOrders :
          again' = Canonicalize(tool_def, source_format, order)
    /\ UNCHANGED <<services, tool_def, source_format, outcome,
                   parser_outcome, args,
                   canonical, target, emitted, reemitted>>

\* emitter(tool): one of the four emitters, on the tool at hand
EmitCall ==
    /\ pc = "tool"
    /\ pc' = "emitted"
    /\ \E tgt \in Targets :
          /\ target' = tgt
          /\ emitted' = Ok(Emit(tgt, canonical))
    /\ UNCHANGED <<services, tool_def, source_format, outcome,
                   parser_outcome, again,
                   args, canonical, reemitted>>

\* emitter(result.tool): one of the four emitters, on the tool canonicalize
\* returned
EmitResultCall ==
    /\ pc = "canonicalized"
    /\ outcome.ok
    /\ pc' = "emitted"
    /\ canonical' = outcome.val.tool
    /\ \E tgt \in Targets :
          /\ target' = tgt
          /\ emitted' = Ok(Emit(tgt, outcome.val.tool))
    /\ UNCHANGED <<services, tool_def, source_format, outcome,
                   parser_outcome, again,
                   args, reemitted>>

\* Canonicalizer().canonicalize(emitted): the document emitted to the tool's own
\* source format is canonicalized, with auto-detection
CanonicalizeEmittedCall ==
    /\ pc = "emitted"
    /\ target = canonical.source_format
    /\ pc' = "recanonicalized"
    /\ \E order \in ReadVerbOrders :
          again' = Canonicalize(emitted.val, "none", order)
    /\ UNCHANGED <<services, tool_def, source_format, outcome,
                   parser_outcome, args,
                   canonical, target, emitted, reemitted>>

\* emitter(result.tool) on the re-canonicalized tool, to the same target
EmitAgainCall ==
    /\ pc = "recanonicalized"
    /\ again.ok
    /\ pc' = "reemitted"
    /\ reemitted' = Ok(Emit(target, again.val.tool))
    /\ UNCHANGED <<services, tool_def, source_format, outcome,
                   parser_outcome, again,
                   args, canonical, target, emitted>>

\* _infer_capabilities(name, description)
InferCall ==
    /\ pc = "args"
    /\ pc' = "inferred"
    /\ \E order \in ReadVerbOrders :
          outcome' = InferCapabilities(Str(args[1]), Str(args[2]), order)
    /\ UNCHANGED <<services, tool_def, source_format, parser_outcome, again,
                   args,
                   canonical, target, emitted, reemitted>>

\* event.data of the "tool.registered" events: no tool_def, a tool_def that is
\* not an object, and the service documents
EventData ==
    {EmptyDict, [source |-> Str("external_service")]}
    \cup {[tool_def |-> v] : v \in {Null, Str("search_web"), Arr(<<>>)}}
    \cup {[tool_def |-> Obj(d)] : d \in ServiceDocuments}

\* a hub on which another service is registered and listens to
\* "tool.registered" too
BusyHub ==
    [services |-> <<"other">>,
     subscriptions |-> {[id |-> 1, pattern |-> "tool.registered",
                         subscriber |-> "other"]},
     issued |-> 1,
     published |-> <<>>]

(***************************************************************************)
(* The calls on an AsyncCanonicalizer, at most MaxCalls of them            *)
(***************************************************************************)
AsyncPcs ==
    {"service", "start", "stop", "canonicalize", "detect_format", "confidence",
     "setup", "teardown", "handled"}

MayCall == pc \in AsyncPcs /\ history.steps < MaxCalls

Stepped == [history EXCEPT !.steps = history.steps + 1]

CannotStart == "the service cannot be started in its state"

\* await service.start(): the base class runs on_start and the service is
\* running; on a running service it raises RuntimeError; whether a stopped
\* service starts again is the base class's choice
StartCall ==
    /\ MayCall
    /\ pc' = "start"
    /\ \E restart \in BOOLEAN :
          LET starts == \/ service.state = "created"
                        \/ service.state = "stopped" /\ restart
          IN  /\ service' = IF starts
                            THEN [on_start(service) EXCEPT !.state = "running"]
                            ELSE service
              /\ outcome' = IF starts THEN Ok(Null)
                            ELSE RuntimeError(CannotStart)
    /\ history' = Stepped
    /\ UNCHANGED <<tool_def, source_format, parser_outcome, others, emitter,
                   hub, integration, event>>

\* await service.stop(): the base class runs on_stop of a running service and
\* the service is stopped
StopCall ==
    /\ MayCall
    /\ pc' = "stop"
    /\ service' = IF service.state = "running"
                  THEN [on_stop(service) EXCEPT !.state = "stopped"]
                  ELSE service
    /\ outcome' = Ok(Null)
    /\ history' = Stepped
    /\ UNCHANGED <<tool_def, source_format, parser_outcome, others, emitter,
                   hub, integration, event>>

\* await service.canonicalize(tool_def, source_format)
AsyncCanonicalizeCall ==
    /\ MayCall
    /\ pc' = "canonicalize"
    /\ \E d \in ServiceDocuments, override \in ServiceOverrides,
          order \in ReadVerbOrders :
          LET r == AsyncCanonicalize(service, emitter, d, override, order)
          IN  /\ tool_def' = d
              /\ source_format' = override
              /\ service' = r.service
              /\ emitter' = r.emitter
              /\ outcome' = r.outcome
              /\ history' =
                    [steps |-> history.steps + 1,
                     calls |-> history.calls
                               + (IF service.state = "running" THEN 1 ELSE 0),
                     core |-> history.core + r.core]
    /\ UNCHANGED <<parser_outcome, others, hub, integration, event>>

\* await service.detect_format(tool_def)
DetectFormatCall ==
    /\ MayCall
    /\ pc' = "detect_format"
    /\ \E d \in ServiceDocuments :
          LET r == DetectFormat(service, emitter, d)
          IN  /\ tool_def' = d
              /\ service' = r.service
              /\ emitter' = r.emitter
              /\ outcome' = r.outcome
    /\ history' = Stepped
    /\ UNCHANGED <<source_format, parser_outcome, others, hub, integration,
                   event>>

\* await service.confidence(tool_def)
AsyncConfidenceCall ==
    /\ MayCall
    /\ pc' = "confidence"
    /\ \E d \in ServiceDocuments :
          LET r == AsyncConfidence(service, emitter, d)
          IN  /\ tool_def' = d
              /\ service' = r.service
              /\ emitter' = r.emitter
              /\ outcome' = r.outcome
    /\ history' = Stepped
    /\ UNCHANGED <<source_format, parser_outcome, others, hub, integration,
                   event>>

(***************************************************************************)
(* The calls on a ToolCanonIntegration, and the events the bus hands it    *)
(***************************************************************************)
\* await integration.setup()
SetupCall ==
    /\ MayCall
    /\ pc' = "setup"
    /\ LET r == Setup(integration, hub)
       IN  /\ integration' = r.integration
           /\ hub' = r.hub
    /\ outcome' = Ok(Null)
    /\ history' = Stepped
    /\ UNCHANGED <<tool_def, source_format, parser_outcome, others, service,
                   emitter, event>>

\* await integration.teardown()
TeardownCall ==
    /\ MayCall
    /\ pc' = "teardown"
    /\ LET r == Teardown(integration, hub)
       IN  /\ integration' = r.integration
           /\ hub' = r.hub
    /\ outcome' = Ok(Null)
    /\ history' = Stepped
    /\ UNCHANGED <<tool_def, source_format, parser_outcome, others, service,
                   emitter, event>>

Subscribed == \E s \in hub.subscriptions : s.id = integration.subscription_id

\* the bus hands a "tool.registered" event to the subscribed handler
OnToolRegisteredCall ==
    /\ MayCall
    /\ Subscribed
    /\ pc' = "handled"
    /\ \E data \in EventData, delivers \in BOOLEAN, order \in ReadVerbOrders :
          LET r == on_tool_registered(integration, service, emitter, hub,
                                      data, delivers, order)
          IN  /\ event' = [data |-> data, delivered |-> delivers]
              /\ integration' = r.integration
              /\ service' = r.service
              /\ emitter' = r.emitter
              /\ hub' = r.hub
              /\ outcome' = r.outcome
              /\ history' = [history EXCEPT !.steps = history.steps + 1,
                                            !.core = history.core + r.core]
    /\ UNCHANGED <<tool_def, source_format, parser_outcome, others>>

\* the canonicalizer of the integration, once there is one, is started and
\* stopped by its owner
CanonicalizerStart == integration.canonicalizer # "none" /\ StartCall
CanonicalizerStop  == integration.canonicalizer # "none" /\ StopCall

\* StoredTool.from_canonical_tool(tool, ...) on the tool at hand; args holds
\* the three extras arguments
FromCanonicalToolCall ==
    /\ pc = "tool"
    /\ pc' = "stored"
    /\ \E ec \in Extras, es \in Extras, ep \in Extras :
          /\ args' = <<ec, es, ep>>
          /\ outcome' = Ok(from_canonical_tool(canonical, ec, es, ep))
    /\ UNCHANGED <<services, tool_def, source_format, parser_outcome, again,
                   canonical, target, emitted, reemitted>>

\* cli.py detect --verbose: detector.confidence(tool_def) on the document
\* just detected
VerboseConfidenceCall ==
    /\ pc = "detected"
    /\ pc' = "detected_scored"
    /\ again' = Ok(Confidence(tool_def))
    /\ UNCHANGED <<services, tool_def, source_format, outcome, parser_outcome,
                   args, canonical, target, emitted, reemitted>>

\* detect, then the scores of the same document
NextDetect == DetectCall \/ VerboseConfidenceCall

SpecDetect == Init /\ [][NextDetect]_vars

Next == DetectCall \/ CanonicalizeCall \/ ConfidenceCall

Spec == Init /\ [][Next]_vars


\* canonicalize, then canonicalize again
NextRepeat == CanonicalizeCall \/ CanonicalizeAgainCall

SpecRepeat == Init /\ [][NextRepeat]_vars

\* the emitters on a tool built directly
InitEmit ==
    /\ tool_def = EmptyDict
    /\ source_format = "none"
    /\ pc = "tool"
    /\ outcome = NoCall
    /\ parser_outcome = NotCalled
    /\ again = NoCall
    /\ args = NoArgs
    /\ canonical \in Tools
    /\ target = "none"
    /\ emitted = NoCall
    /\ reemitted = NoCall
    /\ ServicesIdle

NextEmit == EmitCall

SpecEmit == InitEmit /\ [][NextEmit]_vars

\* canonicalize a document, emit the tool, and take the emission around again
NextRoundTrip ==
    CanonicalizeCall \/ EmitResultCall \/ CanonicalizeEmittedCall \/ EmitAgainCall

SpecRoundTrip == Init /\ [][NextRoundTrip]_vars

\* _infer_capabilities on a name and a description
InitInfer ==
    /\ tool_def = EmptyDict
    /\ source_format = "none"
    /\ pc = "args"
    /\ outcome = NoCall
    /\ parser_outcome = NotCalled
    /\ again = NoCall
    /\ args \in InferNames \X InferDescriptions
    /\ canonical = NoTool
    /\ target = "none"
    /\ emitted = NoCall
    /\ reemitted = NoCall
    /\ ServicesIdle

NextInfer == InferCall

SpecInfer == InitInfer /\ [][NextInfer]_vars

\* a service just constructed, and the calls made on it
InitAsync ==
    /\ tool_def = EmptyDict
    /\ source_format = "none"
    /\ pc = "service"
    /\ outcome = NoCall
    /\ parser_outcome = NotCalled
    /\ again = NoCall
    /\ args = NoArgs
    /\ canonical = NoTool
    /\ target = "none"
    /\ emitted = NoCall
    /\ reemitted = NoCall
    /\ ServicesIdle

NextAsync ==
    \/ StartCall
    \/ StopCall
    \/ AsyncCanonicalizeCall
    \/ DetectFormatCall
    \/ AsyncConfidenceCall

SpecAsync == InitAsync /\ [][NextAsync]_vars

\* an integration just constructed on a hub, with or without a canonicalizer
InitIntegration ==
    /\ tool_def = EmptyDict
    /\ source_format = "none"
    /\ pc = "service"
    /\ outcome = NoCall
    /\ parser_outcome = NotCalled
    /\ again = NoCall
    /\ args = NoArgs
    /\ canonical = NoTool
    /\ target = "none"
    /\ emitted = NoCall
    /\ reemitted = NoCall
    /\ service = NewService
    /\ emitter = <<>>
    /\ history = NoHistory
    /\ hub \in {NoHub, BusyHub}
    /\ integration \in {NoIntegration,
                        [NoIntegration EXCEPT !.canonicalizer = "given"]}
    /\ event = NoEvent

NextIntegration ==
    \/ SetupCall
    \/ TeardownCall
    \/ OnToolRegisteredCall
    \/ CanonicalizerStart
    \/ CanonicalizerStop

SpecIntegration == InitIntegration /\ [][NextIntegration]_vars

\* a tool built directly and handed to the store
InitStore ==
    /\ tool_def = EmptyDict
    /\ source_format = "none"
    /\ pc = "tool"
    /\ outcome = NoCall
    /\ parser_outcome = NotCalled
    /\ again = NoCall
    /\ args = NoArgs
    /\ canonical \in StoreTools
    /\ target = "none"
    /\ emitted = NoCall
    /\ reemitted = NoCall
    /\ ServicesIdle

NextStore == FromCanonicalToolCall

SpecStore == InitStore /\ [][NextStore]_vars

\* the LangChain parser on the documents of its own
InitLangChain ==
    /\ tool_def \in LangChainDocuments
    /\ source_format = "none"
    /\ pc = "start"
    /\ outcome = NoCall
    /\ parser_outcome = NotCalled
    /\ again = NoCall
    /\ args = NoArgs
    /\ canonical = NoTool
    /\ target = "none"
    /\ emitted = NoCall
    /\ reemitted = NoCall
    /\ ServicesIdle

NextLangChain == CanonicalizeCall

SpecLangChain == InitLangChain /\ [][NextLangChain]_vars
(***************************************************************************)
(* Properties                                                              *)
(***************************************************************************)
Detected      == pc = "detected"
Canonicalized == pc = "canonicalized"
Returned      == Canonicalized /\ outcome.ok
AutoDetect    == source_format = "none"
Resolved      == ResolveFormat(tool_def, source_format)
ParserRaised  == parser_outcome # NotCalled /\ ~parser_outcome.ok
ParserReturned == parser_outcome.ok
\* the tool of the result came from _raw_canonicalize
RawExtracted  == Returned /\ (Resolved = "raw" \/ ParserRaised)

Recognizers(d) == {f \in CanonicalizerParsers : CanParse(f, d)}

PriorityOrder == <<"openai", "anthropic", "mcp", "langchain">>

\* C1: detect(doc) returns the format of the first parser, in the order openai,
\* anthropic, mcp, langchain, whose can_parse(doc) is true, and raw if and only
\* if no parser's can_parse(doc) is true.
C1_DetectFirstMatch ==
    Detected =>
        /\ outcome.val = "raw" <=> Recognizers(tool_def) = {}
        /\ outcome.val # "raw" =>
              \E i \in 1..Len(PriorityOrder) :
                  /\ outcome.val = PriorityOrder[i]
                  /\ CanParse(PriorityOrder[i], tool_def)
                  /\ \A j \in 1..(i - 1) : ~CanParse(PriorityOrder[j], tool_def)

\* detect chose mcp over a langchain match that comes later in the order
C1_Witness ==
    /\ Detected
    /\ outcome.val = "mcp"
    /\ Recognizers(tool_def) = {"mcp", "langchain"}

\* C2 as claimed: every document that satisfies both the Anthropic and the MCP
\* can_parse detects as anthropic.
C2_Claimed ==
    (Detected /\ AnthropicCanParse(tool_def) /\ MCPCanParse(tool_def))
        => outcome.val = "anthropic"

\* C2 amended: a document that satisfies both the Anthropic and the MCP
\* can_parse detects as anthropic, unless it also satisfies the OpenAI
\* can_parse, and then it detects as openai; it never detects as mcp.
C2_AnthropicBeforeMCP ==
    (Detected /\ AnthropicCanParse(tool_def) /\ MCPCanParse(tool_def))
        => outcome.val = (IF OpenAICanParse(tool_def) THEN "openai"
                          ELSE "anthropic")

C2_Witness ==
    /\ Detected
    /\ AnthropicCanParse(tool_def) /\ MCPCanParse(tool_def)
    /\ "inputSchema" \in DOMAIN tool_def
    /\ outcome.val = "anthropic"

\* C3 as claimed: for every object document and every override, canonicalize
\* returns a result and never raises.
C3_NeverRaises == Canonicalized => outcome.ok

\* C4: every result has source_format_detected equal to the resolved format
\* (the override if given, else detect(doc)); when the chosen parser raised, the
\* result carries "Parser error for <format>: <message>" and its tool is the
\* one raw extraction produces, with source_format raw.
C4_ParserErrorFallback ==
    Returned =>
        /\ outcome.val.source_format_detected
              = (IF AutoDetect THEN Detect(tool_def) ELSE source_format)
        /\ ParserRaised =>
              /\ \E i \in 1..Len(outcome.val.warnings) :
                    outcome.val.warnings[i]
                        = "Parser error for " \o Resolved \o ": "
                              \o parser_outcome.exc
              /\ RawCanonicalize(tool_def).ok
              /\ outcome.val.tool = RawCanonicalize(tool_def).val
              /\ outcome.val.tool.source_format = "raw"
              /\ outcome.val.source_format_detected # "raw"

\* an auto-detected parser raised and the call returned the raw tool
C4_Witness ==
    /\ Returned /\ AutoDetect /\ ParserRaised
    /\ outcome.val.source_format_detected = "anthropic"
    /\ outcome.val.tool.source_format = "raw"

\* C5: for a document recognized by exactly one parser, detect returns that
\* parser's format, and canonicalize without override, when the parser does not
\* fail, returns a tool whose source_format is that format.
C5_SingleRecognizer ==
    \A f \in CanonicalizerParsers :
        Recognizers(tool_def) = {f} =>
            /\ Detected => outcome.val = f
            /\ (Canonicalized /\ AutoDetect /\ ParserReturned) =>
                  /\ outcome.ok
                  /\ outcome.val.tool.source_format = f
                  /\ outcome.val.source_format_detected = f

C5_Witness ==
    /\ Returned /\ AutoDetect /\ ParserReturned
    /\ Recognizers(tool_def) = {"mcp"}
    /\ outcome.val.tool.source_format = "mcp"

NonEmptyString(d, k) == k \in DOMAIN d /\ IsStr(d[k]) /\ d[k].v # ""

\* C6 as claimed: canonicalizing a document that a parser recognizes and that
\* has a non-empty name and a non-empty description yields no warnings.
C6_Claimed ==
    ( /\ Returned /\ AutoDetect
      /\ Recognizers(tool_def) # {}
      /\ NonEmptyString(tool_def, "name")
      /\ NonEmptyString(tool_def, "description") )
        => outcome.val.warnings = <<>>

\* C6 amended: canonicalizing, without override, a document that a parser
\* recognizes yields no warnings when that parser does not raise and the tool
\* it returns has a non-empty name and a non-empty description.
C6_NoWarnings ==
    (Canonicalized /\ AutoDetect /\ Recognizers(tool_def) # {} /\ ParserReturned)
        => /\ outcome.ok
           /\ (outcome.val.tool.name # "" /\ outcome.val.tool.description # "")
                 => outcome.val.warnings = <<>>

C6_Witness ==
    /\ Returned /\ AutoDetect /\ ParserReturned
    /\ Recognizers(tool_def) # {}
    /\ NonEmptyString(tool_def, "name")
    /\ NonEmptyString(tool_def, "description")
    /\ outcome.val.warnings = <<>>

\* C7 as claimed: for {} detect returns raw and canonicalize returns a tool
\* named "" with exactly three warnings.
C7_Claimed ==
    tool_def = EmptyDict =>
        /\ Detected => outcome.val = "raw"
        /\ (Canonicalized /\ AutoDetect) =>
              /\ outcome.ok
              /\ outcome.val.tool.name = ""
              /\ Len(outcome.val.warnings) = 3

\* C7 amended: for {} detect returns raw and canonicalize returns a tool named
\* "" with exactly four warnings: the undetected format, the heuristic
\* fallback, the missing name and the missing description.
C7_EmptyDocument ==
    tool_def = EmptyDict =>
        /\ Detected => outcome.val = "raw"
        /\ (Canonicalized /\ AutoDetect) =>
              /\ outcome.ok
              /\ outcome.val.tool.name = ""
              /\ outcome.val.warnings
                    = << "Could not detect source format; using raw passthrough.",
                         "No parser for 'raw' format; extracted fields by heuristic.",
                         WarnNoName, WarnNoDescription >>

C7_Witness ==
    /\ tool_def = EmptyDict /\ Returned /\ AutoDetect
    /\ Len(outcome.val.warnings) = 4

\* C8: the warnings of a result are, in this order and nothing else: the
\* undetected-format warning iff no override was given and detect returned raw;
\* the heuristic warning iff the resolved format is raw, or the parser-error
\* warning iff the chosen parser raised; the no-name warning iff the tool's name
\* is empty; the no-description warning iff the tool's description is empty.
C8_WarningOrder ==
    Returned =>
        outcome.val.warnings =
            (IF AutoDetect /\ Detect(tool_def) = "raw"
             THEN <<"Could not detect source format; using raw passthrough.">>
             ELSE <<>>)
            \o (IF Resolved = "raw"
                THEN <<"No parser for 'raw' format; extracted fields by heuristic.">>
                ELSE IF ParserRaised
                THEN <<"Parser error for " \o Resolved \o ": " \o parser_outcome.exc>>
                ELSE <<>>)
            \o (IF outcome.val.tool.name = "" THEN <<WarnNoName>> ELSE <<>>)
            \o (IF outcome.val.tool.description = ""
                THEN <<WarnNoDescription>> ELSE <<>>)

\* a parser error followed by both post-check warnings
C8_Witness ==
    /\ Returned /\ ParserRaised
    /\ Len(outcome.val.warnings) = 3
    /\ outcome.val.warnings[2] = WarnNoName
    /\ outcome.val.warnings[3] = WarnNoDescription

\* doc.function.name, when function is an object that holds name
HasFunctionName(d) ==
    "function" \in DOMAIN d /\ IsDict(d["function"])
    /\ "name" \in DOMAIN d["function"].v

\* the names the document holds are strings
NamesAreStrings(d) ==
    /\ "name" \in DOMAIN d => IsStr(d["name"])
    /\ "title" \in DOMAIN d => IsStr(d["title"])
    /\ HasFunctionName(d) => IsStr(d["function"].v["name"])

\* C9 as claimed: in raw extraction the tool's name is the first present of
\* doc.name, doc.title, doc.function.name, and "" when none is present
\* (stated for the documents whose names are strings).
C9_Claimed ==
    (RawExtracted /\ NamesAreStrings(tool_def)) =>
        outcome.val.tool.name =
            (IF "name" \in DOMAIN tool_def THEN PyStr(tool_def["name"])
             ELSE IF "title" \in DOMAIN tool_def THEN PyStr(tool_def["title"])
             ELSE IF HasFunctionName(tool_def)
             THEN PyStr(tool_def["function"].v["name"])
             ELSE "")

\* C9 amended: in raw extraction the tool's name is str() of doc.name when that
\* is truthy (not absent, null, "", 0 or false), else str() of doc.title when
\* that is truthy, else str() of doc.function.name when function holds name,
\* and "" otherwise.
C9_RawName ==
    RawExtracted =>
        outcome.val.tool.name =
            (IF "name" \in DOMAIN tool_def /\ Truthy(tool_def["name"])
             THEN PyStr(tool_def["name"])
             ELSE IF "title" \in DOMAIN tool_def /\ Truthy(tool_def["title"])
             THEN PyStr(tool_def["title"])
             ELSE IF HasFunctionName(tool_def)
             THEN PyStr(tool_def["function"].v["name"])
             ELSE "")

\* an empty name is skipped for the title
C9_Witness ==
    /\ RawExtracted
    /\ "name" \in DOMAIN tool_def /\ tool_def["name"] = Str("")
    /\ "title" \in DOMAIN tool_def
    /\ outcome.val.tool.name = "Send Email"

InputKeys == <<"parameters", "input_schema", "inputSchema", "schema">>

\* the schemas the document holds are objects
SchemasAreObjects(d) ==
    \A i \in 1..Len(InputKeys) :
        InputKeys[i] \in DOMAIN d => IsDict(d[InputKeys[i]])

\* C10 as claimed: in raw extraction the tool's inputs is the value of the first
\* present key among parameters, input_schema, inputSchema, schema, and {} when
\* none is present (stated for the documents whose schemas are objects).
C10_Claimed ==
    (RawExtracted /\ SchemasAreObjects(tool_def)) =>
        IF \E i \in 1..Len(InputKeys) : InputKeys[i] \in DOMAIN tool_def
        THEN \E i \in 1..Len(InputKeys) :
                /\ InputKeys[i] \in DOMAIN tool_def
                /\ \A j \in 1..(i - 1) : InputKeys[j] \notin DOMAIN tool_def
                /\ Obj(outcome.val.tool.inputs) = tool_def[InputKeys[i]]
        ELSE outcome.val.tool.inputs = EmptyDict

HasTruthy(d, k) == k \in DOMAIN d /\ Truthy(d[k])

\* C10 amended: in raw extraction the tool's inputs is the value of the first
\* key among parameters, input_schema, inputSchema, schema whose value is
\* truthy (not absent, null or empty), and {} when none is.
C10_RawInputs ==
    RawExtracted =>
        IF \E i \in 1..Len(InputKeys) : HasTruthy(tool_def, InputKeys[i])
        THEN \E i \in 1..Len(InputKeys) :
                /\ HasTruthy(tool_def, InputKeys[i])
                /\ \A j \in 1..(i - 1) : ~HasTruthy(tool_def, InputKeys[j])
                /\ Obj(outcome.val.tool.inputs) = tool_def[InputKeys[i]]
        ELSE outcome.val.tool.inputs = EmptyDict

\* an empty parameters object is skipped for input_schema
C10_Witness ==
    /\ RawExtracted
    /\ "parameters" \in DOMAIN tool_def /\ ~Truthy(tool_def["parameters"])
    /\ "input_schema" \in DOMAIN tool_def
    /\ Obj(outcome.val.tool.inputs) = tool_def["input_schema"]
    /\ outcome.val.tool.inputs # EmptyDict


\* C11: on every path of canonicalize (a parser, raw extraction, the fallback
\* after a parser error) the call leaves the input document unchanged and the
\* tool of its result has outputs {}, no security, and original_definition
\* equal to the input document.
C11_ToolInvariants ==
    [][ (pc = "start" /\ pc' = "canonicalized" /\ outcome'.ok) =>
            /\ tool_def' = tool_def
            /\ outcome'.val.tool.outputs = EmptyDict
            /\ outcome'.val.tool.security = Null
            /\ outcome'.val.tool.original_definition = tool_def ]_vars

\* the fallback after a parser error kept a non-empty document
C11_Witness ==
    /\ Returned /\ ParserRaised
    /\ tool_def # EmptyDict
    /\ outcome.val.tool.original_definition = tool_def
    /\ outcome.val.tool.outputs = EmptyDict
    /\ outcome.val.tool.security = Null


Scored == pc = "scored"
Has(k) == k \in DOMAIN tool_def
TypeIsFunction ==
    Has("type") /\ tool_def["type"] = Str("function")

\* C12: confidence(doc) is a map with exactly the five format keys; raw is 0.1;
\* openai is 1.0 if type is "function" and function is present, else 0.7 if
\* parameters and name are present, else 0.0; anthropic is 1.0 iff input_schema
\* and name are present, else 0.0; mcp is 1.0 iff inputSchema and name are
\* present, else 0.0; langchain is 0.9 if args_schema or schema is present, else
\* 0.6 if properties and name are present, else 0.0 (scores in tenths).
C12_Confidence ==
    Scored =>
        /\ DOMAIN outcome.val = {"openai", "anthropic", "mcp", "langchain", "raw"}
        /\ outcome.val["raw"] = 1
        /\ outcome.val["openai"] =
              (IF TypeIsFunction /\ Has("function") THEN 10
               ELSE IF Has("parameters") /\ Has("name") THEN 7 ELSE 0)
        /\ outcome.val["anthropic"] \in {0, 10}
        /\ outcome.val["anthropic"] = 10 <=> (Has("input_schema") /\ Has("name"))
        /\ outcome.val["mcp"] \in {0, 10}
        /\ outcome.val["mcp"] = 10 <=> (Has("inputSchema") /\ Has("name"))
        /\ outcome.val["langchain"] =
              (IF Has("args_schema") \/ Has("schema") THEN 9
               ELSE IF Has("properties") /\ Has("name") THEN 6 ELSE 0)

\* a document the MCP parser accepts by its input_schema scores 0.0 for mcp
C12_Witness ==
    /\ Scored
    /\ MCPCanParse(tool_def) /\ ~Has("inputSchema")
    /\ outcome.val["mcp"] = 0
    /\ outcome.val["anthropic"] = 10
    /\ outcome.val["openai"] = 7


\* C13 as claimed: canonicalize is a deterministic function of the document and
\* the override: a second call with the same document and override returns an
\* equal result, capabilities.action included.
C13_Deterministic == pc = "repeated" => again = outcome


Emitted == pc = "emitted"
\* the schema an openai, anthropic or mcp emission carries
EmittedSchema ==
    CASE target = "openai"    -> emitted.val["function"].v["parameters"].v
      [] target = "anthropic" -> DictGet(emitted.val, "input_schema", Obj(EmptyDict)).v
      [] target = "mcp"       -> DictGet(emitted.val, "inputSchema", Obj(EmptyDict)).v

\* C14: in emit_openai, emit_anthropic and emit_mcp the emitted schema is
\* {type: "object", properties: {}} when tool.inputs is empty; otherwise it holds
\* every key of tool.inputs with its value unchanged, plus type "object" added
\* only when tool.inputs has no type key; so it always has a type key.
C14_NormalizedSchema ==
    (Emitted /\ target \in {"openai", "anthropic", "mcp"}) =>
        LET inputs == canonical.inputs
            schema == EmittedSchema
        IN  /\ "type" \in DOMAIN schema
            /\ IF DOMAIN inputs = {}
               THEN schema = [type |-> Str("object"), properties |-> Obj(EmptyDict)]
               ELSE /\ \A k \in DOMAIN inputs : schema[k] = inputs[k]
                    /\ DOMAIN schema = DOMAIN inputs \cup {"type"}
                    /\ "type" \notin DOMAIN inputs => schema["type"] = Str("object")

\* inputs of type "string" keep their type; inputs without a type get "object"
C14_Witness ==
    /\ Emitted /\ target = "mcp"
    /\ "type" \in DOMAIN canonical.inputs
    /\ canonical.inputs["type"] = Str("string")
    /\ EmittedSchema["type"] = Str("string")
    /\ "title" \in DOMAIN EmittedSchema


JsonSchemaEmitted == Emitted /\ target = "json-schema"

\* C16 as claimed: emit_json_schema(tool) has $schema equal to the fixed URI,
\* title equal to tool.name and description equal to tool.description, whatever
\* keys tool.inputs contains.
C16_Overlay ==
    JsonSchemaEmitted =>
        /\ emitted.val["$schema"] = Str("https://json-schema.org/draft/2019-09/schema")
        /\ emitted.val["title"] = Str(canonical.name)
        /\ emitted.val["description"] = Str(canonical.description)

\* C17 as claimed: emit_json_schema(tool) always contains x-capabilities with
\* the tool's five capability fields, contains x-outputs iff tool.outputs is
\* non-empty, and contains x-security iff tool.security is set, never as null.
C17_Claimed ==
    JsonSchemaEmitted =>
        /\ "x-capabilities" \in DOMAIN emitted.val
        /\ emitted.val["x-capabilities"]
              = Obj([action |-> Str(canonical.capabilities.action),
                     domain |-> Str(canonical.capabilities.domain),
                     side_effects |-> Bool(canonical.capabilities.side_effects),
                     idempotent |-> Bool(canonical.capabilities.idempotent),
                     cost_estimate |-> Str(canonical.capabilities.cost_estimate)])
        /\ "x-outputs" \in DOMAIN emitted.val <=> canonical.outputs # EmptyDict
        /\ "x-security" \in DOMAIN emitted.val <=> canonical.security # Null
        /\ "x-security" \in DOMAIN emitted.val => emitted.val["x-security"] # Null

\* C17 amended: emit_json_schema(tool) always contains x-capabilities with the
\* tool's five capability fields; it contains x-outputs iff tool.outputs is
\* non-empty or tool.inputs holds an x-outputs key, and the value is tool.outputs
\* when that is non-empty; it contains x-security iff tool.security is set or
\* tool.inputs holds an x-security key, and the value is the tool's three
\* security fields when security is set; the keys of tool.inputs apart, an unset
\* security writes no x-security key.
C17_Extensions ==
    JsonSchemaEmitted =>
        LET inputs == canonical.inputs
        IN  /\ "x-capabilities" \in DOMAIN emitted.val
            /\ emitted.val["x-capabilities"]
                  = Obj([action |-> Str(canonical.capabilities.action),
                         domain |-> Str(canonical.capabilities.domain),
                         side_effects |-> Bool(canonical.capabilities.side_effects),
                         idempotent |-> Bool(canonical.capabilities.idempotent),
                         cost_estimate |-> Str(canonical.capabilities.cost_estimate)])
            /\ "x-outputs" \in DOMAIN emitted.val
                  <=> (canonical.outputs # EmptyDict \/ "x-outputs" \in DOMAIN inputs)
            /\ canonical.outputs # EmptyDict
                  => emitted.val["x-outputs"] = Obj(canonical.outputs)
            /\ "x-security" \in DOMAIN emitted.val
                  <=> (canonical.security # Null \/ "x-security" \in DOMAIN inputs)
            /\ canonical.security # Null
                  => emitted.val["x-security"]
                        = Obj([required_permissions |->
                                    Arr([i \in 1..Len(canonical.security.required_permissions) |->
                                            Str(canonical.security.required_permissions[i])]),
                               data_classification |->
                                    Str(canonical.security.data_classification),
                               pii_handling |-> Str(canonical.security.pii_handling)])

\* a tool with outputs and without security: x-outputs is there, x-security not
C17_Witness ==
    /\ JsonSchemaEmitted
    /\ canonical.outputs # EmptyDict /\ canonical.security = Null
    /\ "x-capabilities" \in DOMAIN canonical.inputs
    /\ "x-outputs" \in DOMAIN emitted.val
    /\ "x-security" \notin DOMAIN emitted.val
    /\ emitted.val["x-capabilities"] # Null


\* C15 as claimed: for every tool produced by canonicalizing a document, each of
\* the four emitters returns a document that carries the tool's name
\* (function.name for openai, name for anthropic and mcp, title for
\* json-schema); emit_openai's top-level type is "function", emit_anthropic's
\* result has no top-level type key, and emit_mcp's result has the key
\* inputSchema and never the key input_schema.
C15_EmitCarriesName ==
    (Emitted /\ outcome.ok) =>
        /\ emitted.ok
        /\ target = "openai" =>
              /\ emitted.val["function"].v["name"] = Str(canonical.name)
              /\ emitted.val["type"] = Str("function")
        /\ target = "anthropic" =>
              /\ emitted.val["name"] = Str(canonical.name)
              /\ "type" \notin DOMAIN emitted.val
        /\ target = "mcp" =>
              /\ emitted.val["name"] = Str(canonical.name)
              /\ "inputSchema" \in DOMAIN emitted.val
              /\ "input_schema" \notin DOMAIN emitted.val
        /\ target = "json-schema" => emitted.val["title"] = Str(canonical.name)


\* where a document of the given format keeps its name and description, and the
\* schema it keeps
SourceFields(d, fmt) == IF fmt = "openai" /\ IsWrapped(d) THEN d["function"].v ELSE d
SourceSchema(d, fmt) ==
    LET f == SourceFields(d, fmt)
    IN  CASE fmt = "openai"    -> DictGet(f, "parameters", Obj(EmptyDict))
          [] fmt = "anthropic" -> DictGet(f, "input_schema", Obj(EmptyDict))
          [] fmt = "mcp"       -> IF "inputSchema" \in DOMAIN f THEN f["inputSchema"]
                                  ELSE DictGet(f, "input_schema", Obj(EmptyDict))
\* the keys under a schema's properties (none when it has no properties)
PropertyKeys(schema) ==
    IF "properties" \in DOMAIN schema /\ IsDict(schema["properties"])
    THEN DOMAIN schema["properties"].v
    ELSE {}
\* where an emitted document keeps its name and description
EmittedFields ==
    IF target = "openai" THEN emitted.val["function"].v ELSE emitted.val
\* the tool came from the parser of its format and was emitted to that format
SameFormat ==
    /\ pc \in {"emitted", "recanonicalized", "reemitted"}
    /\ outcome.ok /\ parser_outcome.ok
    /\ target = canonical.source_format

\* C18: canonicalizing a document of format openai, anthropic or mcp and
\* emitting the tool to that same format preserves the name, the description and
\* the set of property keys of the input schema; canonicalizing the emitted
\* document succeeds and detects that format; and emitting again to the same
\* format yields the same document.
C18_RoundTrip ==
    SameFormat =>
        /\ target \in {"openai", "anthropic", "mcp"}
        /\ EmittedFields["name"]
              = DictGet(SourceFields(tool_def, target), "name", Str(""))
        /\ EmittedFields["description"]
              = DictGet(SourceFields(tool_def, target), "description", Str(""))
        /\ PropertyKeys(EmittedSchema)
              = PropertyKeys(SourceSchema(tool_def, target).v)
        /\ pc \in {"recanonicalized", "reemitted"} =>
              /\ again.ok
              /\ again.val.source_format_detected = target
              /\ again.val.tool.source_format = target
              /\ again.val.tool.name = canonical.name
              /\ again.val.tool.description = canonical.description
        /\ pc = "reemitted" => reemitted = emitted

\* a legacy OpenAI document came back wrapped, with its property keys, and the
\* second emission equals the first
C18_Witness ==
    /\ SameFormat /\ pc = "reemitted"
    /\ target = "openai" /\ ~IsWrapped(tool_def)
    /\ PropertyKeys(EmittedSchema) = {"query"}
    /\ emitted.val["function"].v["name"] = Str("get_file")
    /\ reemitted = emitted


Inferred == pc = "inferred"
\* the lower-cased text name + " " + description
InferText == Lower(args[1] \o " " \o args[2])
HasSideEffectVerb ==
    \E v \in {"write", "create", "delete", "update", "post", "send", "save",
              "remove"} : Contains(InferText, v)

\* C19: _infer_capabilities returns side_effects true iff the lower-cased text
\* name + " " + description contains one of write, create, delete, update, post,
\* send, save, remove as a substring; idempotent is not side_effects; and
\* cost_estimate is "unknown".
C19_SideEffects ==
    Inferred =>
        /\ outcome.ok
        /\ outcome.val.side_effects = HasSideEffectVerb
        /\ outcome.val.idempotent = ~outcome.val.side_effects
        /\ outcome.val.cost_estimate = "unknown"

\* "post" inside "Postgres" counts as a side-effect verb
C19_Witness ==
    /\ Inferred
    /\ args = <<"run_sql", "Query Postgres">>
    /\ outcome.val.side_effects
    /\ ~outcome.val.idempotent
    /\ outcome.val.action = "query"

FixedReadOrder == <<"read", "get", "fetch", "list", "search", "query", "find">>
HasReadVerb ==
    \E i \in 1..Len(FixedReadOrder) : Contains(InferText, FixedReadOrder[i])

\* C20 as claimed: action is "write" when the text has a side-effect verb and no
\* read verb, "read" when it has neither, and otherwise the first read verb, in
\* the order read, get, fetch, list, search, query, find, that occurs in the
\* text, also when side_effects is true.
C20_FirstReadVerb ==
    Inferred =>
        IF HasReadVerb
        THEN \E i \in 1..Len(FixedReadOrder) :
                /\ outcome.val.action = FixedReadOrder[i]
                /\ Contains(InferText, FixedReadOrder[i])
                /\ \A j \in 1..(i - 1) : ~Contains(InferText, FixedReadOrder[j])
        ELSE outcome.val.action = (IF HasSideEffectVerb THEN "write" ELSE "read")


DomainKeywords ==
    <<"file", "web", "search", "database", "sql", "code", "email", "http", "api">>
DomainOfKeyword ==
    [k \in {DomainKeywords[i] : i \in 1..Len(DomainKeywords)} |->
        CASE k = "file" -> "filesystem"
          [] k \in {"web", "search", "http", "api"} -> "web"
          [] k \in {"database", "sql"} -> "database"
          [] k = "code" -> "code"
          [] k = "email" -> "email"]
HasDomainKeyword ==
    \E i \in 1..Len(DomainKeywords) : Contains(InferText, DomainKeywords[i])

\* C21: in _infer_capabilities, domain is the domain of the first keyword, in
\* the table order file, web, search, database, sql, code, email, http, api,
\* that occurs as a substring of the text, and "general" when none occurs.
C21_FirstDomain ==
    Inferred =>
        /\ outcome.ok
        /\ IF HasDomainKeyword
           THEN \E i \in 1..Len(DomainKeywords) :
                   /\ Contains(InferText, DomainKeywords[i])
                   /\ \A j \in 1..(i - 1) : ~Contains(InferText, DomainKeywords[j])
                   /\ outcome.val.domain = DomainOfKeyword[DomainKeywords[i]]
           ELSE outcome.val.domain = "general"

\* "web" comes first in the text, "file" first in the table
C21_Witness ==
    /\ Inferred
    /\ args = <<"search_web", "Read a file">>
    /\ Contains(InferText, "web") /\ Contains(InferText, "file")
    /\ outcome.val.domain = "filesystem"


ServiceRunning == service.state = "running"
GuardedCalls == {"canonicalize", "detect_format", "confidence"}
GuardedCall == history'.steps = history.steps + 1 /\ pc' \in GuardedCalls

\* C22: in any sequence of start, stop, canonicalize, detect_format and
\* confidence calls on an AsyncCanonicalizer, each of canonicalize,
\* detect_format and confidence raises RuntimeError whenever the service is
\* not running (never started, or stopped), and in that case emits no event
\* and does not change request_count.
C22_NotRunningRaises ==
    [][ (GuardedCall /\ ~ServiceRunning) =>
            /\ ~outcome'.ok
            /\ "type" \in DOMAIN outcome'
            /\ outcome'.type = "RuntimeError"
            /\ emitter' = emitter
            /\ service'.request_count = service.request_count ]_vars

\* canonicalize on a service that ran, counted a request and was stopped
C22_Witness ==
    /\ pc = "canonicalize"
    /\ service.state = "stopped"
    /\ service.request_count = 1
    /\ Len(emitter) = 1
    /\ ~outcome.ok
    /\ outcome.exc = NotRunning


CanonicalizedEvents ==
    {i \in 1..Len(emitter) : emitter[i].event = "tool.canonicalized"}

\* C23 as claimed: after any sequence of canonicalize calls made while the
\* service is running, request_count equals the number of those calls and the
\* number of "tool.canonicalized" events emitted; each call invokes the core
\* canonicalizer exactly once and emits its single event after the core
\* returns, carrying tool_name, source_format (the detected format),
\* warning_count = len(warnings) and the full result.
C23_CountsAgree ==
    pc \in AsyncPcs =>
        /\ service.request_count = history.calls
        /\ history.core = history.calls
        /\ Cardinality(CanonicalizedEvents) = history.calls
        /\ \A i \in CanonicalizedEvents :
              /\ emitter[i].tool_name = emitter[i].result.tool.name
              /\ emitter[i].source_format
                    = emitter[i].result.source_format_detected
              /\ emitter[i].warning_count = Len(emitter[i].result.warnings)


\* the registrations of "toolcanon" on the hub, and the "tool.registered"
\* subscriptions of this integration
Registrations == {i \in 1..Len(hub.services) : hub.services[i] = "toolcanon"}
OwnSubscriptions ==
    {s \in hub.subscriptions :
        s.pattern = "tool.registered" /\ s.subscriber = "toolcanon"}
OneOfEach ==
    IF integration.is_set_up
    THEN Cardinality(Registrations) = 1 /\ Cardinality(OwnSubscriptions) = 1
    ELSE Registrations = {} /\ OwnSubscriptions = {}
SetupOrTeardown ==
    history'.steps = history.steps + 1 /\ pc' \in {"setup", "teardown"}
Repeated ==
    \/ pc' = "setup" /\ integration.is_set_up
    \/ pc' = "teardown" /\ ~integration.is_set_up

\* C24: after any sequence of setup and teardown calls, the hub holds exactly
\* one "toolcanon" service registration and exactly one "tool.registered"
\* subscription of this integration when is_set_up is true, and none of either
\* when is_set_up is false; a repeated setup or a repeated (or never-preceded)
\* teardown changes nothing.
C24_OneRegistration ==
    /\ [](pc \in AsyncPcs => OneOfEach)
    /\ [][ SetupOrTeardown =>
             /\ integration'.is_set_up = (pc' = "setup")
             /\ outcome'.ok
             /\ Repeated => UNCHANGED <<hub, integration>> ]_vars

\* a second setup after a teardown, on a hub another service uses too
C24_Witness ==
    /\ pc = "setup"
    /\ integration.is_set_up
    /\ integration.subscription_id = 3
    /\ hub.services = <<"other", "toolcanon">>
    /\ Cardinality(hub.subscriptions) = 2


Handled == history'.steps = history.steps + 1 /\ pc' = "handled"
\* the tool_def of the event handed to the handler in this step
HandedToolDef ==
    IF "tool_def" \in DOMAIN event'.data THEN event'.data["tool_def"] ELSE Null
CanonicalizationFails ==
    ~Canonicalize(HandedToolDef.v, "none", ReadVerbs).ok
PublishedNow == Len(hub'.published) - Len(hub.published)
LastPublished == hub'.published[Len(hub'.published)]

\* C30: _on_tool_registered never raises to the event bus: for an event whose
\* tool_def is missing or not an object it publishes nothing; for an object
\* tool_def it canonicalizes it once (through the async canonicalizer when that
\* is running, else through a synchronous Canonicalizer) and publishes exactly
\* one "tool.canonicalized" event, or publishes none if canonicalization or
\* publication fails.
C30_HandlerNeverRaises ==
    [][ Handled =>
          /\ outcome'.ok
          /\ IF HandedToolDef.t # "obj"
             THEN /\ hub' = hub
                  /\ history'.core = history.core
                  /\ service' = service
             ELSE /\ history'.core = history.core + 1
                  /\ service'.request_count =
                        service.request_count
                        + (IF service.state = "running" THEN 1 ELSE 0)
                  /\ hub'.services = hub.services
                  /\ hub'.subscriptions = hub.subscriptions
                  /\ IF CanonicalizationFails \/ ~event'.delivered
                     THEN hub'.published = hub.published
                     ELSE /\ PublishedNow = 1
                          /\ SubSeq(hub'.published, 1, Len(hub.published))
                                = hub.published
                          /\ LastPublished.event_type = "tool.canonicalized"
                          /\ LastPublished.data.tool_name
                                = LastPublished.data.canonical_tool.name ]_vars

\* two events handled by a running canonicalizer: the first tool_def makes the
\* canonicalization raise, the second is published
C30_Witness ==
    /\ pc = "handled"
    /\ service.state = "running"
    /\ service.request_count = 2
    /\ history.core = 2
    /\ Len(hub.published) = 1
    /\ Len(emitter) = 1
    /\ hub.published[1].data.tool_name = "search_web"
    /\ outcome.ok


Stored == pc = "stored"
NoExtras == args = <<Null, Null, Null>>
NonEmpty(x) == IF x = "" THEN <<>> ELSE <<x>>

\* C25: StoredTool.from_canonical_tool(tool) with no extras derives
\* capabilities = [action, domain] restricted to non-empty values, in that
\* order, followed by "side_effects" iff tool.capabilities.side_effects;
\* security_tags = required_permissions followed by data_classification iff it
\* is not "public" or ""; pii_tags = [pii_handling] iff it is not "none" or "";
\* and both tag lists are empty when tool.security is unset.
C25_DerivedTags ==
    (Stored /\ NoExtras) =>
        LET caps == canonical.capabilities
            sec == canonical.security
            stored == outcome.val
        IN  /\ stored.capabilities =
                  NonEmpty(caps.action) \o NonEmpty(caps.domain)
                  \o (IF caps.side_effects THEN <<"side_effects">> ELSE <<>>)
            /\ IF sec = Null
               THEN stored.security_tags = <<>> /\ stored.pii_tags = <<>>
               ELSE /\ stored.security_tags =
                          IF sec.data_classification \in {"public", ""}
                          THEN sec.required_permissions
                          ELSE Append(sec.required_permissions,
                                      sec.data_classification)
                    /\ stored.pii_tags =
                          IF sec.pii_handling \in {"none", ""} THEN <<>>
                          ELSE <<sec.pii_handling>>

\* no action, a domain, side effects; two permissions, a public classification
C25_Witness ==
    /\ Stored /\ NoExtras
    /\ canonical.capabilities.action = ""
    /\ outcome.val.capabilities = <<"web", "side_effects">>
    /\ canonical.security # Null
    /\ canonical.security.data_classification = "public"
    /\ outcome.val.security_tags = <<"internet", "filesystem">>
    /\ outcome.val.pii_tags = <<"processes">>


\* MCPParser.parse was called on the document
MCPParsed == Canonicalized /\ Resolved = "mcp"
\* the value the claim names as the source of the inputs
MCPInputsSource ==
    IF "inputSchema" \in DOMAIN tool_def THEN tool_def["inputSchema"]
    ELSE IF "input_schema" \in DOMAIN tool_def THEN tool_def["input_schema"]
    ELSE Obj(EmptyDict)

\* C26: MCPParser.parse takes inputs from doc.inputSchema whenever that key is
\* present, and from doc.input_schema only when inputSchema is absent, and {}
\* when both are absent; a value taken that is not an object makes parse raise,
\* the other key is not tried.
C26_MCPInputs ==
    MCPParsed =>
        /\ ParserReturned => Obj(parser_outcome.val.inputs) = MCPInputsSource
        /\ (IsStr(DictGet(tool_def, "name", Str("")))
            /\ IsStr(DictGet(tool_def, "description", Str(""))))
           => (ParserReturned <=> IsDict(MCPInputsSource))

\* both keys present: the empty inputSchema wins over the input_schema with a
\* property
C26_Witness ==
    /\ MCPParsed /\ ParserReturned
    /\ "inputSchema" \in DOMAIN tool_def
    /\ tool_def["inputSchema"] = Obj(EmptyDict)
    /\ "input_schema" \in DOMAIN tool_def
    /\ tool_def["input_schema"] = SchemaPath
    /\ parser_outcome.val.inputs = EmptyDict


\* LangChainParser.parse was called on the document
LangChainParsed == Canonicalized /\ Resolved = "langchain"
\* the key the candidate schema comes from ("none": no key)
CandidateKey ==
    IF "args_schema" \in DOMAIN tool_def THEN "args_schema"
    ELSE IF "schema" \in DOMAIN tool_def THEN "schema"
    ELSE IF "parameters" \in DOMAIN tool_def THEN "parameters"
    ELSE IF "properties" \in DOMAIN tool_def THEN "properties"
    ELSE "none"
Candidate == tool_def[CandidateKey]
IsObjectSchema(s) ==
    \/ "type" \in DOMAIN s /\ s["type"] = Str("object")
    \/ "properties" \in DOMAIN s
RequiredFields(fields) ==
    SelectSeq(DictKeys(fields),
              LAMBDA f : \/ "is_required" \notin DOMAIN fields[f].v
                         \/ fields[f].v["is_required"] = Bool(TRUE))
AsStrings(names) == [i \in 1..Len(names) |-> Str(names[i])]

ClaimedDescription ==
    IF "description" \in DOMAIN tool_def /\ Truthy(tool_def["description"])
    THEN PyStr(tool_def["description"])
    ELSE ""
HasWarning(w) == \E i \in 1..Len(outcome.val.warnings) : outcome.val.warnings[i] = w

\* C28 as claimed: in raw extraction the tool's description is doc.description
\* when it is a non-empty value and "" otherwise (absent, null or empty),
\* capabilities is the default ToolCapability with no inference run, and
\* source_format is raw; so a document whose description is absent, null or
\* empty always receives the no-description warning.
C28_RawDescription ==
    RawExtracted =>
        /\ outcome.val.tool.description = ClaimedDescription
        /\ outcome.val.tool.capabilities = DefaultToolCapability
        /\ outcome.val.tool.source_format = "raw"
        /\ ClaimedDescription = "" => HasWarning(WarnNoDescription)


DetectedAndScored == pc = "detected_scored"

\* C29: for every document, if detect(doc) returns a format f other than raw,
\* then confidence(doc)[f] is at least 0.6 and so strictly greater than the raw
\* score 0.1: detection never selects a format whose confidence score is 0.0
\* (scores in tenths: 0.6 is 6, 0.1 is 1).
C29_DetectedIsScored ==
    (DetectedAndScored /\ outcome.val # "raw") =>
        /\ again.val[outcome.val] >= 6
        /\ again.val[outcome.val] > again.val["raw"]
        /\ again.val[outcome.val] # 0

\* the weakest case: a document detected as langchain by name, description and
\* properties alone scores 0.6 for langchain, and 0.0 for the three formats
\* tried before it
C29_Witness ==
    /\ DetectedAndScored
    /\ outcome.val = "langchain"
    /\ ~("args_schema" \in DOMAIN tool_def) /\ ~("schema" \in DOMAIN tool_def)
    /\ again.val["langchain"] = 6
    /\ again.val["openai"] = 0 /\ again.val["anthropic"] = 0 /\ again.val["mcp"] = 0
    /\ again.val["raw"] = 1

====
